---- MODULE Spec2Model ----
(***************************************************************************)
(* login-go: authentication and authorization subsystem.                   *)
(*                                                                         *)
(* The model follows the final source versions:                            *)
(*   internal/services/auth.go   AuthService (keys, GenerateToken,         *)
(*                               ValidateToken, Login)                     *)
(*   unnamed/part_009            AuthHandler (Login, ValidateToken,        *)
(*                               AuthMiddleware, GetAuthenticatedUserID)   *)
(*   internal/handlers/user.go   UserHandler (Create, GetByID, UpdateByID) *)
(*   unnamed/part_014            UserRepository                            *)
(*   internal/models/user.go     User, Claims, HashPassword, CheckPassword *)
(*                                                                         *)
(* Strings are sequences of one-character strings, so that TrimSpace,      *)
(* ToLower and the validator's length rules are computed as the code       *)
(* computes them.  Time is counted in ticks, TicksPerSecond ticks to the   *)
(* second, so that the whole-second precision of the token's timestamps    *)
(* (jwt.NewNumericDate) is visible next to the clock time.Now() reads.     *)
(***************************************************************************)
EXTENDS Integers, Sequences, FiniteSets, TLC

VARIABLES
    now,        \* the wall clock, in ticks
    svc,        \* <<>> (NewAuthService failed) or <<AuthService>>
    users,      \* the users table: a set of models.User rows
    nextID,     \* the table's next primary key
    issued,     \* tokens handed out by GenerateToken, with their time of issue
    last,       \* the last direct call of the service API and what it returned
    reqs,       \* the HTTP requests in flight, one per worker slot
    nreq,       \* the number of HTTP requests started so far
    limiter,    \* token buckets of the handlers' rate limiters, in ticks
    subs,       \* the user_subscriptions table: a set of rows
    nextSubID,  \* that table's next primary key
    mu,         \* UserHandler.mu: <<>> or the worker that holds the lock
    proc        \* the process: where main() stands, the server, the database

vars == <<now, svc, users, nextID, issued, last, reqs, nreq, limiter,
          subs, nextSubID, mu, proc>>

----------------------------------------------------------------------------
(* Bounds of the model.                                                    *)

TicksPerSecond == 2
StartTime == 4
MaxTime == 6
MaxIssued == 1
MaxReq == 2

\* the server's request workers
Workers == {"w1", "w2"}

----------------------------------------------------------------------------
(* Strings.                                                                *)

Rep(ch, n) == [i \in 1..n |-> ch]

Lower == {"a", "b", "l", "i", "o", "p", "q", "x"}
Upper == {"A", "B"}
Digit == {"0"}

IsSpace(ch) == ch = " "

ToLowerCh(ch) ==
    CASE ch = "A" -> "a"
      [] ch = "B" -> "b"
      [] OTHER -> ch

ToLower(s) == [i \in 1..Len(s) |-> ToLowerCh(s[i])]

RECURSIVE TrimLeft(_)
TrimLeft(s) ==
    IF s # <<>> /\ IsSpace(Head(s)) THEN TrimLeft(Tail(s)) ELSE s

RECURSIVE TrimRight(_)
TrimRight(s) ==
    IF s # <<>> /\ IsSpace(s[Len(s)])
    THEN TrimRight(SubSeq(s, 1, Len(s) - 1))
    ELSE s

TrimSpace(s) == TrimRight(TrimLeft(s))

IsAlphanum(s) == \A i \in 1..Len(s) : s[i] \in Lower \cup Upper \cup Digit

----------------------------------------------------------------------------
(* Time.                                                                   *)

\* time.Time.Truncate(jwt.TimePrecision), TimePrecision = time.Second
Truncate(t) == t - (t % TicksPerSecond)

\* jwt.NewNumericDate
NewNumericDate(t) == Truncate(t)

----------------------------------------------------------------------------
(* Password hashing (bcrypt).  A hash is a value of its own kind: it       *)
(* records the salt and the key bytes that were hashed, and only           *)
(* CompareHashAndPassword looks inside.                                    *)

BcryptSalts == {"s1"}

\* the zero byte of a Go string
NUL == "NUL"

\* the bytes the Blowfish key schedule reads: 18 words of 4 bytes
KeyBytes == 72

\* blowfish.ExpandKey on the key bcrypt hands it, the password followed by
\* a zero byte: the key is read byte by byte and started again from its
\* first byte whenever its end is reached
ExpandKey(pw) ==
    LET ckey == pw \o <<NUL>>
    IN  [i \in 1..KeyBytes |-> ckey[((i - 1) % Len(ckey)) + 1]]

\* bcrypt.ErrPasswordTooLong: releases of the library that have it answer
\* GenerateFromPassword with it for more than KeyBytes bytes; the releases
\* before hash what the key schedule reads
TooLong(pw) == Len(pw) > KeyBytes

\* bcrypt.GenerateFromPassword when it returns a hash
GenerateFromPassword(pw, salt) ==
    [bcrypt |-> TRUE, salt |-> salt, of |-> ExpandKey(pw)]

\* bcrypt.CompareHashAndPassword that compares the first byte only
CompareHashAndPassword_FirstByte(hash, pw) ==
    hash.bcrypt /\ hash.of[1] = ExpandKey(pw)[1]

\* bcrypt.CompareHashAndPassword: TRUE when there is no error
CompareHashAndPassword(hash, pw) == hash.bcrypt /\ hash.of = ExpandKey(pw)

\* what a User's Password field holds before HashPassword: the plaintext
Plain(pw) == [bcrypt |-> FALSE, salt |-> "", of |-> pw]

\* the cleared field: user.Password = ""
NoPassword == Plain(<<>>)

HashPassword(u, salt) ==
    [u EXCEPT !.Password = GenerateFromPassword(u.Password.of, salt)]

CheckPassword(u, pw) == CompareHashAndPassword(u.Password, pw)

----------------------------------------------------------------------------
(* Key material and the service object.                                    *)

KeyPairs == {"kA", "kB"}

\* what a configured key path may hold
MissingFile == [kind |-> "missing", pair |-> "", small |-> FALSE]
GarbageFile == [kind |-> "garbage", pair |-> "", small |-> FALSE]
PrivateFile(k, small) == [kind |-> "private", pair |-> k, small |-> small]
PublicFile(k) == [kind |-> "public", pair |-> k, small |-> FALSE]

KeyFiles ==
    {MissingFile, GarbageFile, PrivateFile("kA", TRUE)}
        \cup {PrivateFile("kA", FALSE)}
        \cup {PublicFile(k) : k \in KeyPairs}

\* AuthConfig.TokenExpiry values tried, in ticks: -1s, 0, a fraction of a
\* second, 1s
Expiries == {-TicksPerSecond, 0, 1, TicksPerSecond}

loadPrivateKey(file) ==
    IF file.kind = "missing"
    THEN [key |-> <<>>, err |-> "failed to read private key"]
    ELSE IF file.kind # "private"
    THEN [key |-> <<>>, err |-> "failed to parse private key"]
    ELSE [key |-> <<[pair |-> file.pair, small |-> file.small]>>, err |-> ""]

loadPublicKey(file) ==
    IF file.kind = "missing"
    THEN [key |-> <<>>, err |-> "failed to read public key"]
    ELSE IF file.kind # "public"
    THEN [key |-> <<>>, err |-> "failed to parse public key"]
    ELSE [key |-> <<[pair |-> file.pair]>>, err |-> ""]

\* NewAuthService as it would be if a public key that fails to load were
\* left nil instead of failing the construction
NewAuthService_NilPublicKey(privFile, pubFile, expiry) ==
    LET priv == loadPrivateKey(privFile)
        pub == loadPublicKey(pubFile)
    IN  IF priv.err # "" THEN [svc |-> <<>>, err |-> "failed to load private key"]
        ELSE [svc |-> << [privateKey |-> priv.key[1],
                          publicKey |-> IF pub.err # "" THEN [pair |-> ""]
                                        ELSE pub.key[1],
                          tokenExpiry |-> expiry] >>,
              err |-> ""]

\* NewAuthService: <<>> with an error, or <<service>>
NewAuthService(privFile, pubFile, expiry) ==
    LET priv == loadPrivateKey(privFile)
        pub == loadPublicKey(pubFile)
    IN  IF priv.err # "" THEN [svc |-> <<>>, err |-> "failed to load private key"]
        ELSE IF pub.err # "" THEN [svc |-> <<>>, err |-> "failed to load public key"]
        ELSE [svc |-> << [privateKey |-> priv.key[1],
                          publicKey |-> pub.key[1],
                          tokenExpiry |-> expiry] >>,
              err |-> ""]

----------------------------------------------------------------------------
(* Token codec (golang-jwt v5 as AuthService uses it).  A token string is  *)
(* a sequence of parts; a well-formed compact token is the one-element     *)
(* sequence holding the token's header, claims and signature.              *)

RSAFamily == {"RS256", "RS384", "RS512"}
RegisteredAlgs == RSAFamily \cup {"HS256", "PS256", "none"}

\* the string segment that is no token at all
Junk == [kind |-> "junk"]
BearerPrefix == [kind |-> "bearer"]

\* fmt.Sprintf("%d", user.ID)
Sprintd(n) == <<"#", n>>

\* token.SignedString(privateKey) with SigningMethodRS256
SignedString(claims, key) ==
    IF key.small
    THEN [token |-> <<>>, err |-> "rsa: message too long for RSA key size"]
    ELSE [token |-> << [kind |-> "jwt", alg |-> "RS256", claims |-> claims,
                        sig |-> [alg |-> "RS256", key |-> key.pair]] >>,
          err |-> ""]

\* GenerateToken as it would be with Username taken from the display name
GenerateToken_DisplayName(s, user, t) ==
    IF user = <<>> \/ user[1].ID = 0
    THEN [token |-> <<>>, err |-> "invalid user",
          inc |-> << <<"generate_token", "failed">> >>]
    ELSE LET claims == [UserID |-> user[1].ID,
                        Username |-> user[1].Name,
                        ExpiresAt |-> NewNumericDate(t + s.tokenExpiry),
                        IssuedAt |-> NewNumericDate(t),
                        NotBefore |-> NewNumericDate(t),
                        Issuer |-> "login-go",
                        Subject |-> Sprintd(user[1].ID)]
             signed == SignedString(claims, s.privateKey)
         IN  IF signed.err # ""
             THEN [token |-> <<>>, err |-> "failed to sign token",
                   inc |-> << <<"generate_token", "failed">> >>]
             ELSE [token |-> signed.token, err |-> "",
                   inc |-> << <<"generate_token", "success">> >>]

\* GenerateToken as it would be with ExpiresAt set to the time of issue
GenerateToken_NoLifetime(s, user, t) ==
    IF user = <<>> \/ user[1].ID = 0
    THEN [token |-> <<>>, err |-> "invalid user",
          inc |-> << <<"generate_token", "failed">> >>]
    ELSE LET claims == [UserID |-> user[1].ID,
                        Username |-> user[1].UsernameForLogin,
                        ExpiresAt |-> NewNumericDate(t),
                        IssuedAt |-> NewNumericDate(t),
                        NotBefore |-> NewNumericDate(t),
                        Issuer |-> "login-go",
                        Subject |-> Sprintd(user[1].ID)]
             signed == SignedString(claims, s.privateKey)
         IN  IF signed.err # ""
             THEN [token |-> <<>>, err |-> "failed to sign token",
                   inc |-> << <<"generate_token", "failed">> >>]
             ELSE [token |-> signed.token, err |-> "",
                   inc |-> << <<"generate_token", "success">> >>]

\* AuthService.GenerateToken at clock reading t; user is <<>> (nil) or <<User>>
GenerateToken(s, user, t) ==
    IF user = <<>> \/ user[1].ID = 0
    THEN [token |-> <<>>, err |-> "invalid user",
          inc |-> << <<"generate_token", "failed">> >>]
    ELSE LET claims == [UserID |-> user[1].ID,
                        Username |-> user[1].UsernameForLogin,
                        ExpiresAt |-> NewNumericDate(t + s.tokenExpiry),
                        IssuedAt |-> NewNumericDate(t),
                        NotBefore |-> NewNumericDate(t),
                        Issuer |-> "login-go",
                        Subject |-> Sprintd(user[1].ID)]
             signed == SignedString(claims, s.privateKey)
         IN  IF signed.err # ""
             THEN [token |-> <<>>, err |-> "failed to sign token",
                   inc |-> << <<"generate_token", "failed">> >>]
             ELSE [token |-> signed.token, err |-> "",
                   inc |-> << <<"generate_token", "success">> >>]

\* the Keyfunc as it would be without the test of the signing method
Keyfunc_AnyMethod(s, tok) == [key |-> <<s.publicKey>>, err |-> ""]

\* the Keyfunc ValidateToken passes to the parser
Keyfunc(s, tok) ==
    IF tok.alg \notin RSAFamily
    THEN [key |-> <<>>, err |-> "unexpected signing method"]
    ELSE [key |-> <<s.publicKey>>, err |-> ""]

\* SigningMethodRSA.Verify
Verify(tok, key) == tok.sig.alg = tok.alg /\ tok.sig.key = key.pair

\* the validation of the claims as it would be if a token were still good
\* at the instant of its expires_at
ValidateClaims_ThroughExpiry(claims, t) ==
    LET expired == IF t <= claims.ExpiresAt THEN {} ELSE {"ErrTokenExpired"}
        early == IF t >= claims.NotBefore THEN {} ELSE {"ErrTokenNotValidYet"}
    IN  IF expired \cup early = {} THEN {}
        ELSE {"ErrTokenInvalidClaims"} \cup expired \cup early

\* jwt.Validator.Validate on the registered claims at clock reading t
ValidateClaims(claims, t) ==
    LET expired == IF t < claims.ExpiresAt THEN {} ELSE {"ErrTokenExpired"}
        early == IF t >= claims.NotBefore THEN {} ELSE {"ErrTokenNotValidYet"}
    IN  IF expired \cup early = {} THEN {}
        ELSE {"ErrTokenInvalidClaims"} \cup expired \cup early

\* jwt.ParseWithClaims: the set of error kinds errors.Is reports, {} when valid
ParseWithClaims(s, tokenStr, t) ==
    IF Len(tokenStr) # 1 \/ tokenStr[1].kind # "jwt"
    THEN {"ErrTokenMalformed"}
    ELSE LET tok == tokenStr[1]
         IN  IF tok.alg \notin RegisteredAlgs THEN {"ErrTokenUnverifiable"}
             ELSE IF Keyfunc(s, tok).err # "" THEN {"ErrTokenUnverifiable"}
             ELSE IF ~Verify(tok, Keyfunc(s, tok).key[1])
             THEN {"ErrTokenSignatureInvalid"}
             ELSE ValidateClaims(tok.claims, t)

\* the keys the Keyfunc handed to the parser, which passes them to Verify
KeysHanded(s, tokenStr) ==
    IF Len(tokenStr) # 1 \/ tokenStr[1].kind # "jwt" THEN {}
    ELSE IF tokenStr[1].alg \notin RegisteredAlgs THEN {}
    ELSE IF Keyfunc(s, tokenStr[1]).err # "" THEN {}
    ELSE {Keyfunc(s, tokenStr[1]).key[1]}

\* ValidateToken as it would be if it handed back the parsed claims
\* together with the error
ValidateToken_ClaimsWithError(s, tokenStr, t) ==
    IF tokenStr = <<>>
    THEN [claims |-> <<>>, err |-> {"empty token"}, keys |-> {},
          inc |-> << <<"validate_token", "failed">> >>]
    ELSE LET errs == ParseWithClaims(s, tokenStr, t)
         IN  IF errs # {}
             THEN [claims |-> IF "ErrTokenMalformed" \in errs THEN <<>>
                              ELSE <<tokenStr[1].claims>>,
                   err |-> {"invalid token"} \cup errs,
                   keys |-> KeysHanded(s, tokenStr),
                   inc |-> << <<"validate_token", "failed">> >>]
             ELSE [claims |-> <<tokenStr[1].claims>>, err |-> {},
                   keys |-> KeysHanded(s, tokenStr),
                   inc |-> << <<"validate_token", "success">> >>]

\* AuthService.ValidateToken at clock reading t: claims is <<>> (nil) or
\* <<Claims>>, err the set of error kinds ({} is nil)
ValidateToken(s, tokenStr, t) ==
    IF tokenStr = <<>>
    THEN [claims |-> <<>>, err |-> {"empty token"}, keys |-> {},
          inc |-> << <<"validate_token", "failed">> >>]
    ELSE LET errs == ParseWithClaims(s, tokenStr, t)
         IN  IF errs # {}
             THEN [claims |-> <<>>, err |-> {"invalid token"} \cup errs,
                   keys |-> KeysHanded(s, tokenStr),
                   inc |-> << <<"validate_token", "failed">> >>]
             ELSE [claims |-> <<tokenStr[1].claims>>, err |-> {},
                   keys |-> KeysHanded(s, tokenStr),
                   inc |-> << <<"validate_token", "success">> >>]

----------------------------------------------------------------------------
(* UserRepository over the users table.  Results carry the row as <<>>     *)
(* (nil) or <<User>> and the error ("" is nil).                            *)

MinID(rows) == CHOOSE u \in rows : \A v \in rows : u.ID <= v.ID

\* db.Where(...).First(&user): the matching row with the lowest primary key
First(rows) ==
    IF rows = {} THEN [user |-> <<>>, err |-> "ErrNotFound"]
    ELSE [user |-> <<MinID(rows)>>, err |-> ""]

GetByUsername(store, username) ==
    First({u \in store : u.UsernameForLogin = username})

GetByEmail(store, email) ==
    First({u \in store : u.Email = email})

GetByIDWithContext(store, id) ==
    First({u \in store : u.ID = id})

\* UserRepository.CreateWithContext on the pointer user, <<>> (nil) or
\* <<User>>: hashes the password, then in one transaction refuses a taken
\* username or email and inserts the row.  rejectsLong tells whether the
\* bcrypt release the program is built with has ErrPasswordTooLong.  The
\* result's user is what the pointer refers to afterwards
CreateWithContext(store, user, salt, id, rejectsLong) ==
    IF user = <<>>
    THEN [store |-> store, user |-> <<>>, err |-> "ErrInvalidInput"]
    ELSE IF rejectsLong /\ TooLong(user[1].Password.of)
    THEN [store |-> store, user |-> user, err |-> "failed to hash password"]
    ELSE LET hashed == HashPassword(user[1], salt)
             row == [hashed EXCEPT !.ID = id]
         IN  IF \E u \in store : u.UsernameForLogin = hashed.UsernameForLogin
             THEN [store |-> store, user |-> <<hashed>>,
                   err |-> "ErrDatabaseOperation"]
             ELSE IF \E u \in store : u.Email = hashed.Email
             THEN [store |-> store, user |-> <<hashed>>,
                   err |-> "ErrDatabaseOperation"]
             ELSE [store |-> store \cup {row}, user |-> <<row>>, err |-> ""]

\* UserRepository.UpdateWithContext on the pointer user, <<>> (nil) or
\* <<User>>: refuses an email another row holds, then tx.Save(user) writes
\* every column of the row with that key
UpdateWithContext(store, user) ==
    IF user = <<>>
    THEN [store |-> store, err |-> "ErrInvalidInput"]
    ELSE IF \E u \in store : u.Email = user[1].Email /\ u.ID # user[1].ID
    THEN [store |-> store, err |-> "ErrDatabaseOperation"]
    ELSE [store |-> {u \in store : u.ID # user[1].ID} \cup {user[1]},
          err |-> ""]

\* UserRepository.DeleteWithContext
DeleteWithContext(store, id) ==
    IF \A u \in store : u.ID # id
    THEN [store |-> store, err |-> "ErrNotFound"]
    ELSE [store |-> {u \in store : u.ID # id}, err |-> ""]

----------------------------------------------------------------------------
(* AuthService.Login at clock reading t.  calls lists the collaborators    *)
(* the call reached, inc the authOperations counters it incremented.       *)

ErrRequired == "username and password are required"
ErrInvalidCredentials == "invalid credentials"
ErrGenerate == "failed to generate token"

\* Login as it would be without the check for empty fields
Login_NoEmptyCheck(s, store, username, password, t) ==
    LET found == GetByUsername(store, username)
    IN  IF found.err # ""
        THEN [user |-> <<>>, token |-> <<>>, err |-> ErrInvalidCredentials,
              calls |-> <<"GetByUsername">>,
              inc |-> << <<"login", "failed">> >>]
        ELSE IF ~CompareHashAndPassword(found.user[1].Password, password)
        THEN [user |-> <<>>, token |-> <<>>, err |-> ErrInvalidCredentials,
              calls |-> <<"GetByUsername", "CompareHashAndPassword">>,
              inc |-> << <<"login", "failed">> >>]
        ELSE LET gen == GenerateToken(s, found.user, t)
                 reached == <<"GetByUsername", "CompareHashAndPassword",
                              "GenerateToken">>
             IN  IF gen.err # ""
                 THEN [user |-> <<>>, token |-> <<>>, err |-> ErrGenerate,
                       calls |-> reached,
                       inc |-> gen.inc \o << <<"login", "failed">> >>]
                 ELSE [user |-> found.user, token |-> gen.token, err |-> "",
                       calls |-> reached,
                       inc |-> gen.inc \o << <<"login", "success">> >>]

\* Login as it would be if an unknown username had an error of its own
Login_UnknownUserError(s, store, username, password, t) ==
    IF username = <<>> \/ password = <<>>
    THEN [user |-> <<>>, token |-> <<>>, err |-> ErrRequired,
          calls |-> <<>>, inc |-> << <<"login", "failed">> >>]
    ELSE LET found == GetByUsername(store, username)
         IN  IF found.err # ""
             THEN [user |-> <<>>, token |-> <<>>, err |-> "user not found",
                   calls |-> <<"GetByUsername">>,
                   inc |-> << <<"login", "failed">> >>]
             ELSE IF ~CompareHashAndPassword(found.user[1].Password, password)
             THEN [user |-> <<>>, token |-> <<>>, err |-> ErrInvalidCredentials,
                   calls |-> <<"GetByUsername", "CompareHashAndPassword">>,
                   inc |-> << <<"login", "failed">> >>]
             ELSE LET gen == GenerateToken(s, found.user, t)
                      reached == <<"GetByUsername", "CompareHashAndPassword",
                                   "GenerateToken">>
                  IN  IF gen.err # ""
                      THEN [user |-> <<>>, token |-> <<>>, err |-> ErrGenerate,
                            calls |-> reached,
                            inc |-> gen.inc \o << <<"login", "failed">> >>]
                      ELSE [user |-> found.user, token |-> gen.token, err |-> "",
                            calls |-> reached,
                            inc |-> gen.inc \o << <<"login", "success">> >>]

\* Login as it would be if a failure to sign were left to GenerateToken's
\* own counter
Login_SigningUncounted(s, store, username, password, t) ==
    IF username = <<>> \/ password = <<>>
    THEN [user |-> <<>>, token |-> <<>>, err |-> ErrRequired,
          calls |-> <<>>, inc |-> << <<"login", "failed">> >>]
    ELSE LET found == GetByUsername(store, username)
         IN  IF found.err # ""
             THEN [user |-> <<>>, token |-> <<>>, err |-> ErrInvalidCredentials,
                   calls |-> <<"GetByUsername">>,
                   inc |-> << <<"login", "failed">> >>]
             ELSE IF ~CompareHashAndPassword(found.user[1].Password, password)
             THEN [user |-> <<>>, token |-> <<>>, err |-> ErrInvalidCredentials,
                   calls |-> <<"GetByUsername", "CompareHashAndPassword">>,
                   inc |-> << <<"login", "failed">> >>]
             ELSE LET gen == GenerateToken(s, found.user, t)
                      reached == <<"GetByUsername", "CompareHashAndPassword",
                                   "GenerateToken">>
                  IN  IF gen.err # ""
                      THEN [user |-> <<>>, token |-> <<>>, err |-> ErrGenerate,
                            calls |-> reached,
                            inc |-> gen.inc]
                      ELSE [user |-> found.user, token |-> gen.token, err |-> "",
                            calls |-> reached,
                            inc |-> gen.inc \o << <<"login", "success">> >>]

\* AuthService.Login at clock reading t
Login(s, store, username, password, t) ==
    IF username = <<>> \/ password = <<>>
    THEN [user |-> <<>>, token |-> <<>>, err |-> ErrRequired,
          calls |-> <<>>, inc |-> << <<"login", "failed">> >>]
    ELSE LET found == GetByUsername(store, username)
         IN  IF found.err # ""
             THEN [user |-> <<>>, token |-> <<>>, err |-> ErrInvalidCredentials,
                   calls |-> <<"GetByUsername">>,
                   inc |-> << <<"login", "failed">> >>]
             ELSE IF ~CompareHashAndPassword(found.user[1].Password, password)
             THEN [user |-> <<>>, token |-> <<>>, err |-> ErrInvalidCredentials,
                   calls |-> <<"GetByUsername", "CompareHashAndPassword">>,
                   inc |-> << <<"login", "failed">> >>]
             ELSE LET gen == GenerateToken(s, found.user, t)
                      reached == <<"GetByUsername", "CompareHashAndPassword",
                                   "GenerateToken">>
                  IN  IF gen.err # ""
                      THEN [user |-> <<>>, token |-> <<>>, err |-> ErrGenerate,
                            calls |-> reached,
                            inc |-> gen.inc \o << <<"login", "failed">> >>]
                      ELSE [user |-> found.user, token |-> gen.token, err |-> "",
                            calls |-> reached,
                            inc |-> gen.inc \o << <<"login", "success">> >>]

----------------------------------------------------------------------------
(* Inputs.                                                                 *)

UAli == <<"a", "l", "i">>
UAliCaps == <<"A", "l", "i">>
UBob == <<"b", "o", "b">>
UBobPadded == <<" ", "b", "o", "b">>
UBlank == Rep(" ", 3)

EA == <<"a", "@", "x", ".", "i", "o">>
EB == <<"b", "@", "x", ".", "i", "o">>

\* addresses the "email" tag turns away: no dot in the domain, and a
\* last label that is a digit
EDotless == <<"a", "@", "x">>
EDigitTLD == <<"a", "@", "x", ".", "0">>

PwP == Rep("p", 8)
PwQ == Rep("q", 8)
PwPPadded == <<" ">> \o Rep("p", 8)
PwBlank == Rep(" ", 8)
PwShort == Rep("p", 2)

\* a password CreateUserRequest's max=100 admits and the key schedule of
\* bcrypt does not read to its end
PwLong == Rep("q", KeyBytes + 1)

NAl == <<"A", "l">>
NBo == <<"B", "o">>

\* a models.User value not yet saved
NewUser(name, username, email, pw) ==
    [ID |-> 0, Name |-> name, UsernameForLogin |-> username, Email |-> email,
     Password |-> Plain(pw)]

\* claims and tokens a client may present that GenerateToken of this
\* service instance did not produce: signed by either key pair (another
\* issuer, possibly with a skewed clock), or under another algorithm
WindowStart == Truncate(StartTime)
WindowEnd == WindowStart + TicksPerSecond

ForeignClaims(uid, username, nbf, exp) ==
    [UserID |-> uid, Username |-> username, ExpiresAt |-> exp,
     IssuedAt |-> nbf, NotBefore |-> nbf, Issuer |-> "login-go",
     Subject |-> Sprintd(uid)]

ForeignToken(alg, sigalg, key, claims) ==
    << [kind |-> "jwt", alg |-> alg, claims |-> claims,
        sig |-> [alg |-> sigalg, key |-> key]] >>

ForeignWindows ==
    { <<WindowStart, WindowEnd>>,                     \* valid for one second
      <<WindowEnd, WindowEnd + TicksPerSecond>>,      \* starts in the future
      <<WindowEnd, WindowStart>> }                    \* over before it starts

ForeignTokens ==
    { ForeignToken("RS256", "RS256", k, ForeignClaims(1, UAli, w[1], w[2])) :
        k \in KeyPairs, w \in ForeignWindows }
    \cup { ForeignToken(a, a, "kA",
                        ForeignClaims(1, UAli, WindowStart, WindowEnd)) :
             a \in {"HS256", "none", "XX", "RS384"} }
    \cup { ForeignToken("RS256", "HS256", "kA",
                        ForeignClaims(1, UAli, WindowStart, WindowEnd)),
             ForeignToken("HS256", "RS256", "kA",
                        ForeignClaims(1, UAli, WindowStart, WindowEnd)) }

BadStrings == { <<>>, <<Junk>>, <<Junk, Junk>> }

----------------------------------------------------------------------------
(* HTTP layer: what a request carries, and the handlers as functions of    *)
(* the request and the state they read.                                    *)

LoginBurst == 10
UserBurst == 50
SubscriptionBurst == 100

\* rate.NewLimiter(rate.Every(time.Second), burst): the bucket holds up to
\* burst tokens and gains one per second; levels are counted in ticks
Full(burst) == burst * TicksPerSecond

\* rate.Limiter.Allow
Allow(level) == level >= TicksPerSecond
Take(level) == IF Allow(level) THEN level - TicksPerSecond ELSE level

Refill(level, burst) == IF level < Full(burst) THEN level + 1 ELSE level

NoResp == [status |-> 0, error |-> "", data |-> <<>>]
NoBody == [ok |-> TRUE, name |-> <<>>, username |-> <<>>, email |-> <<>>,
           password |-> <<>>]
BadJSON == [NoBody EXCEPT !.ok = FALSE]

\* a request's fields: pc is where the request stands (idle, handler: past
\* the middleware and waiting for its handler, done: answered); ran lists
\* the handlers of the chain that have run; mw is what ValidateToken
\* returned to the middleware, ret what the service returned to the handler
IdleReq ==
    [pc |-> "idle", route |-> "", guarded |-> FALSE, header |-> <<>>,
     id |-> <<>>, body |-> NoBody, ctx |-> <<>>, resp |-> NoResp,
     ran |-> <<>>, mw |-> <<>>, reads |-> {}, writes |-> {},
     calls |-> <<>>, ret |-> <<>>]

JSON(status, message) == [status |-> status, error |-> message, data |-> <<>>]
OK(status, data) == [status |-> status, error |-> "", data |-> <<data>>]

\* strings.TrimPrefix(token, "Bearer ")
TrimPrefix(header) ==
    IF header # <<>> /\ Head(header).kind = "bearer" THEN Tail(header) ELSE header

DigitValue(ch) ==
    CASE ch = "0" -> 0 [] ch = "1" -> 1 [] ch = "2" -> 2 [] ch = "3" -> 3
      [] ch = "4" -> 4 [] ch = "5" -> 5 [] ch = "6" -> 6 [] ch = "7" -> 7
      [] ch = "8" -> 8 [] ch = "9" -> 9 [] OTHER -> -1

RECURSIVE Digits(_, _)
Digits(s, acc) ==
    IF s = <<>> THEN acc ELSE Digits(Tail(s), 10 * acc + DigitValue(Head(s)))

\* strconv.ParseUint(s, 10, 32); the path ids tried have few digits, so
\* the 32-bit range error does not arise
ParseUint(s) ==
    IF s = <<>> \/ \E i \in 1..Len(s) : DigitValue(s[i]) < 0
    THEN [n |-> 0, err |-> "invalid syntax"]
    ELSE [n |-> Digits(s, 0), err |-> ""]

\* GetAuthenticatedUserID
GetAuthenticatedUserID(ctx) ==
    IF ctx = <<>> THEN [id |-> 0, exists |-> FALSE]
    ELSE [id |-> ctx[1].user_id, exists |-> TRUE]

\* the part of an address before the "@", unquoted: runs of atom
\* characters with single dots between them
EmailLocal(s) ==
    /\ s # <<>>
    /\ \A i \in 1..Len(s) : s[i] = "." \/ IsAlphanum(<<s[i]>>)
    /\ s[1] # "." /\ s[Len(s)] # "."
    /\ \A i \in 1..(Len(s) - 1) : ~(s[i] = "." /\ s[i + 1] = ".")

\* the part after the "@": labels that begin and end with a letter or a
\* digit, each followed by a dot, then a last label that begins and ends
\* with a letter, then at most one more dot
EmailDomain(s) ==
    LET d == IF s # <<>> /\ s[Len(s)] = "." THEN SubSeq(s, 1, Len(s) - 1)
             ELSE s
    IN  /\ \A i \in 1..Len(d) : d[i] = "." \/ IsAlphanum(<<d[i]>>)
        /\ \E i \in 2..(Len(d) - 1) :
              /\ d[i] = "."
              /\ IsAlphanum(<<d[1], d[i - 1]>>)
              /\ d[i + 1] \in Lower \cup Upper
              /\ d[Len(d)] \in Lower \cup Upper

\* validator tag "email": the address matches the validator's pattern for
\* an address, here on letters, digits, dots, spaces and "@"
IsEmail(s) ==
    \E i \in 1..Len(s) :
        /\ s[i] = "@"
        /\ EmailLocal(SubSeq(s, 1, i - 1))
        /\ EmailDomain(SubSeq(s, i + 1, Len(s)))

\* validate:"required,min=3,max=50" / "required,min=8" on LoginRequest
ValidLoginRequest(b) ==
    /\ Len(b.username) >= 3 /\ Len(b.username) <= 50
    /\ Len(b.password) >= 8

\* validate tags of CreateUserRequest
ValidCreateUserRequest(b) ==
    /\ Len(b.name) >= 2 /\ Len(b.name) <= 100
    /\ Len(b.username) >= 3 /\ Len(b.username) <= 50 /\ IsAlphanum(b.username)
    /\ IsEmail(b.email)
    /\ Len(b.password) >= 8 /\ Len(b.password) <= 100

\* validate tags of UpdateUserRequest (omitempty)
ValidUpdateUserRequest(b) ==
    /\ b.name = <<>> \/ (Len(b.name) >= 2 /\ Len(b.name) <= 100)
    /\ b.email = <<>> \/ IsEmail(b.email)

\* AuthMiddleware as it would be if a rejected token only went unbound and
\* the chain continued
AuthMiddleware_Advisory(s, q, t) ==
    IF q.header = <<>>
    THEN [abort |-> TRUE, resp |-> JSON(401, "no token provided"),
          ctx |-> <<>>, calls |-> <<>>, ret |-> <<>>]
    ELSE LET out == ValidateToken(s, TrimPrefix(q.header), t)
         IN  IF out.err # {}
             THEN [abort |-> FALSE, resp |-> NoResp,
                   ctx |-> <<>>, calls |-> <<"ValidateToken">>, ret |-> <<out>>]
             ELSE [abort |-> FALSE, resp |-> NoResp,
                   ctx |-> << [user_id |-> out.claims[1].UserID,
                               username |-> out.claims[1].Username] >>,
                   calls |-> <<"ValidateToken">>, ret |-> <<out>>]

\* AuthMiddleware as it would be without the check for a missing header
AuthMiddleware_NoHeaderCheck(s, q, t) ==
    LET out == ValidateToken(s, TrimPrefix(q.header), t)
    IN  IF out.err # {}
        THEN [abort |-> TRUE, resp |-> JSON(401, "invalid token"),
              ctx |-> <<>>, calls |-> <<"ValidateToken">>, ret |-> <<out>>]
        ELSE [abort |-> FALSE, resp |-> NoResp,
              ctx |-> << [user_id |-> out.claims[1].UserID,
                          username |-> out.claims[1].Username] >>,
              calls |-> <<"ValidateToken">>, ret |-> <<out>>]

\* AuthMiddleware as it would be if it bound the subject of the first
\* user rather than the one the token names
AuthMiddleware_FixedSubject(s, q, t) ==
    IF q.header = <<>>
    THEN [abort |-> TRUE, resp |-> JSON(401, "no token provided"),
          ctx |-> <<>>, calls |-> <<>>, ret |-> <<>>]
    ELSE LET out == ValidateToken(s, TrimPrefix(q.header), t)
         IN  IF out.err # {}
             THEN [abort |-> TRUE, resp |-> JSON(401, "invalid token"),
                   ctx |-> <<>>, calls |-> <<"ValidateToken">>, ret |-> <<out>>]
             ELSE [abort |-> FALSE, resp |-> NoResp,
                   ctx |-> << [user_id |-> 1,
                               username |-> out.claims[1].Username] >>,
                   calls |-> <<"ValidateToken">>, ret |-> <<out>>]

\* AuthHandler.AuthMiddleware on request q at clock reading t: abort is
\* c.AbortWithStatusJSON, otherwise ctx is what c.Set bound and c.Next runs
AuthMiddleware(s, q, t) ==
    IF q.header = <<>>
    THEN [abort |-> TRUE, resp |-> JSON(401, "no token provided"),
          ctx |-> <<>>, calls |-> <<>>, ret |-> <<>>]
    ELSE LET out == ValidateToken(s, TrimPrefix(q.header), t)
         IN  IF out.err # {}
             THEN [abort |-> TRUE, resp |-> JSON(401, "invalid token"),
                   ctx |-> <<>>, calls |-> <<"ValidateToken">>, ret |-> <<out>>]
             ELSE [abort |-> FALSE, resp |-> NoResp,
                   ctx |-> << [user_id |-> out.claims[1].UserID,
                               username |-> out.claims[1].Username] >>,
                   calls |-> <<"ValidateToken">>, ret |-> <<out>>]

\* AuthHandler.ValidateToken as it would be if it told an expired token
\* from the other failures
HandleValidateToken_TellsExpired(s, q, t) ==
    IF q.header = <<>>
    THEN [resp |-> JSON(401, "no token provided"), calls |-> <<>>, ret |-> <<>>]
    ELSE LET out == ValidateToken(s, TrimPrefix(q.header), t)
         IN  IF "ErrTokenExpired" \in out.err
             THEN [resp |-> JSON(401, "token expired"),
                   calls |-> <<"ValidateToken">>, ret |-> <<out>>]
             ELSE IF out.err # {}
             THEN [resp |-> JSON(401, "invalid token"),
                   calls |-> <<"ValidateToken">>, ret |-> <<out>>]
             ELSE [resp |-> OK(200, out.claims[1]),
                   calls |-> <<"ValidateToken">>, ret |-> <<out>>]

\* AuthHandler.ValidateToken (POST /auth/validate)
HandleValidateToken(s, q, t) ==
    IF q.header = <<>>
    THEN [resp |-> JSON(401, "no token provided"), calls |-> <<>>, ret |-> <<>>]
    ELSE LET out == ValidateToken(s, TrimPrefix(q.header), t)
         IN  IF out.err # {}
             THEN [resp |-> JSON(401, "invalid token"),
                   calls |-> <<"ValidateToken">>, ret |-> <<out>>]
             ELSE [resp |-> OK(200, out.claims[1]),
                   calls |-> <<"ValidateToken">>, ret |-> <<out>>]

\* AuthHandler.Login as it would be without user.Password = ""
HandleLogin_PasswordKept(s, store, q, t, level) ==
    IF ~Allow(level)
    THEN [resp |-> JSON(429, "too many login attempts"), calls |-> <<>>,
          ret |-> <<>>]
    ELSE IF ~q.body.ok
    THEN [resp |-> JSON(400, "invalid request format"), calls |-> <<>>,
          ret |-> <<>>]
    ELSE IF ~ValidLoginRequest(q.body)
    THEN [resp |-> JSON(400, "validation failed"), calls |-> <<>>, ret |-> <<>>]
    ELSE LET out == Login(s, store, TrimSpace(q.body.username),
                          TrimSpace(q.body.password), t)
         IN  IF out.err # ""
             THEN [resp |-> JSON(401, "invalid credentials"),
                   calls |-> <<"Login">> \o out.calls, ret |-> <<out>>]
             ELSE [resp |-> OK(200, [token |-> out.token, user |-> out.user[1]]),
                   calls |-> <<"Login">> \o out.calls, ret |-> <<out>>]

\* AuthHandler.Login (POST /auth/login); level is the limiter's bucket
HandleLogin(s, store, q, t, level) ==
    IF ~Allow(level)
    THEN [resp |-> JSON(429, "too many login attempts"), calls |-> <<>>,
          ret |-> <<>>]
    ELSE IF ~q.body.ok
    THEN [resp |-> JSON(400, "invalid request format"), calls |-> <<>>,
          ret |-> <<>>]
    ELSE IF ~ValidLoginRequest(q.body)
    THEN [resp |-> JSON(400, "validation failed"), calls |-> <<>>, ret |-> <<>>]
    ELSE LET out == Login(s, store, TrimSpace(q.body.username),
                          TrimSpace(q.body.password), t)
         IN  IF out.err # ""
             THEN [resp |-> JSON(401, "invalid credentials"),
                   calls |-> <<"Login">> \o out.calls, ret |-> <<out>>]
             ELSE [resp |-> OK(200, [token |-> out.token,
                                      user |-> [out.user[1] EXCEPT
                                                  !.Password = NoPassword]]),
                   calls |-> <<"Login">> \o out.calls, ret |-> <<out>>]

\* what a handler hands back: the response, the users table after it, the
\* rows it looked up or wrote by primary key, the collaborators it reached
Result(resp, store, reads, writes, calls, ret) ==
    [resp |-> resp, store |-> store, reads |-> reads, writes |-> writes,
     calls |-> calls, ret |-> ret]

\* UserHandler.GetByID as it would be without the comparison of the
\* authenticated id with the path id
HandleGetByID_AnySubject(store, q) ==
    LET parsed == ParseUint(q.id)
        found == GetByIDWithContext(store, parsed.n)
    IN  IF parsed.err # ""
        THEN Result(JSON(400, "invalid ID format"), store, {}, {}, <<>>, <<>>)
        ELSE IF found.err # ""
        THEN Result(JSON(404, "user not found"), store, {parsed.n}, {},
                    <<"GetByIDWithContext">>, <<>>)
        ELSE Result(OK(200, [found.user[1] EXCEPT !.Password = NoPassword]),
                    store, {parsed.n}, {}, <<"GetByIDWithContext">>, <<>>)

\* UserHandler.GetByID (GET /user/:id)
HandleGetByID(store, q) ==
    LET parsed == ParseUint(q.id)
        auth == GetAuthenticatedUserID(q.ctx)
        found == GetByIDWithContext(store, parsed.n)
    IN  IF parsed.err # ""
        THEN Result(JSON(400, "invalid ID format"), store, {}, {}, <<>>, <<>>)
        ELSE IF ~auth.exists \/ auth.id # parsed.n
        THEN Result(JSON(403, "unauthorized access"), store, {}, {}, <<>>, <<>>)
        ELSE IF found.err # ""
        THEN Result(JSON(404, "user not found"), store, {parsed.n}, {},
                    <<"GetByIDWithContext">>, <<>>)
        ELSE Result(OK(200, [found.user[1] EXCEPT !.Password = NoPassword]),
                    store, {parsed.n}, {}, <<"GetByIDWithContext">>, <<>>)

\* UpdateByID as it would be if it cleared the password before the save
\* instead of after it
HandleUpdateByID_ClearsBeforeSave(store, q, level) ==
    LET parsed == ParseUint(q.id)
        auth == GetAuthenticatedUserID(q.ctx)
        found == GetByIDWithContext(store, parsed.n)
        newEmail == TrimSpace(ToLower(q.body.email))
        named == IF q.body.name # <<>>
                 THEN [found.user[1] EXCEPT !.Name = TrimSpace(q.body.name)]
                 ELSE found.user[1]
        user == IF q.body.email # <<>> /\ newEmail # named.Email
                THEN [named EXCEPT !.Email = newEmail]
                ELSE named
        saved == UpdateWithContext(store, <<[user EXCEPT !.Password = NoPassword]>>)
        lookups == IF q.body.email # <<>> /\ newEmail # named.Email
                   THEN <<"GetByIDWithContext", "GetByEmail">>
                   ELSE <<"GetByIDWithContext">>
    IN  IF ~Allow(level)
        THEN Result(JSON(429, "rate limit exceeded"), store, {}, {}, <<>>, <<>>)
        ELSE IF parsed.err # ""
        THEN Result(JSON(400, "invalid ID format"), store, {}, {}, <<>>, <<>>)
        ELSE IF ~auth.exists \/ auth.id # parsed.n
        THEN Result(JSON(403, "unauthorized access"), store, {}, {}, <<>>, <<>>)
        ELSE IF ~q.body.ok
        THEN Result(JSON(400, "invalid request format"), store, {}, {}, <<>>, <<>>)
        ELSE IF ~ValidUpdateUserRequest(q.body)
        THEN Result(JSON(400, "validation failed"), store, {}, {}, <<>>, <<>>)
        ELSE IF found.err # ""
        THEN Result(JSON(404, "user not found"), store, {parsed.n}, {},
                    <<"GetByIDWithContext">>, <<>>)
        ELSE IF /\ q.body.email # <<>>
                /\ newEmail # named.Email
                /\ GetByEmail(store, newEmail).err = ""
        THEN Result(JSON(409, "email already in use"), store, {parsed.n}, {},
                    <<"GetByIDWithContext", "GetByEmail">>, <<>>)
        ELSE IF saved.err # ""
        THEN Result(JSON(500, "failed to update user"), store, {parsed.n}, {},
                    lookups \o <<"UpdateWithContext">>, <<>>)
        ELSE Result(OK(200, [user EXCEPT !.Password = NoPassword]),
                    saved.store, {parsed.n}, {parsed.n},
                    lookups \o <<"UpdateWithContext">>, <<>>)

\* UserHandler.UpdateByID (PATCH /user/:id); level is the limiter's bucket
HandleUpdateByID(store, q, level) ==
    LET parsed == ParseUint(q.id)
        auth == GetAuthenticatedUserID(q.ctx)
        found == GetByIDWithContext(store, parsed.n)
        newEmail == TrimSpace(ToLower(q.body.email))
        named == IF q.body.name # <<>>
                 THEN [found.user[1] EXCEPT !.Name = TrimSpace(q.body.name)]
                 ELSE found.user[1]
        user == IF q.body.email # <<>> /\ newEmail # named.Email
                THEN [named EXCEPT !.Email = newEmail]
                ELSE named
        saved == UpdateWithContext(store, <<user>>)
        \* the look-ups made before the save: GetByEmail is asked only for
        \* an address that differs from the row's
        lookups == IF q.body.email # <<>> /\ newEmail # named.Email
                   THEN <<"GetByIDWithContext", "GetByEmail">>
                   ELSE <<"GetByIDWithContext">>
    IN  IF ~Allow(level)
        THEN Result(JSON(429, "rate limit exceeded"), store, {}, {}, <<>>, <<>>)
        ELSE IF parsed.err # ""
        THEN Result(JSON(400, "invalid ID format"), store, {}, {}, <<>>, <<>>)
        ELSE IF ~auth.exists \/ auth.id # parsed.n
        THEN Result(JSON(403, "unauthorized access"), store, {}, {}, <<>>, <<>>)
        ELSE IF ~q.body.ok
        THEN Result(JSON(400, "invalid request format"), store, {}, {}, <<>>, <<>>)
        ELSE IF ~ValidUpdateUserRequest(q.body)
        THEN Result(JSON(400, "validation failed"), store, {}, {}, <<>>, <<>>)
        ELSE IF found.err # ""
        THEN Result(JSON(404, "user not found"), store, {parsed.n}, {},
                    <<"GetByIDWithContext">>, <<>>)
        ELSE IF /\ q.body.email # <<>>
                /\ newEmail # named.Email
                /\ GetByEmail(store, newEmail).err = ""
        THEN Result(JSON(409, "email already in use"), store, {parsed.n}, {},
                    <<"GetByIDWithContext", "GetByEmail">>, <<>>)
        ELSE IF saved.err # ""
        THEN Result(JSON(500, "failed to update user"), store, {parsed.n}, {},
                    lookups \o <<"UpdateWithContext">>, <<>>)
        ELSE Result(OK(200, [user EXCEPT !.Password = NoPassword]),
                    saved.store, {parsed.n}, {parsed.n},
                    lookups \o <<"UpdateWithContext">>, <<>>)

\* UserHandler.Create (POST /user/register); id is the key the table
\* would give a new row
HandleCreate(store, q, level, salt, id, rejectsLong) ==
    LET name == TrimSpace(q.body.name)
        email == TrimSpace(ToLower(q.body.email))
        username == TrimSpace(ToLower(q.body.username))
        user == NewUser(name, username, email, q.body.password)
        made == CreateWithContext(store, <<user>>, salt, id, rejectsLong)
    IN  IF ~Allow(level)
        THEN Result(JSON(429, "rate limit exceeded"), store, {}, {}, <<>>, <<>>)
        ELSE IF ~q.body.ok
        THEN Result(JSON(400, "invalid request format"), store, {}, {}, <<>>, <<>>)
        ELSE IF ~ValidCreateUserRequest(q.body)
        THEN Result(JSON(400, "validation failed"), store, {}, {}, <<>>, <<>>)
        ELSE IF GetByUsername(store, username).err = ""
        THEN Result(JSON(409, "username already taken"), store, {}, {},
                    <<"GetByUsername">>, <<>>)
        ELSE IF GetByEmail(store, email).err = ""
        THEN Result(JSON(409, "email already registered"), store, {}, {},
                    <<"GetByUsername", "GetByEmail">>, <<>>)
        ELSE IF made.err # ""
        THEN Result(JSON(500, "failed to create user"), store, {}, {},
                    <<"GetByUsername", "GetByEmail", "CreateWithContext">>, <<>>)
        ELSE Result(OK(201, [made.user[1] EXCEPT !.Password = NoPassword]),
                    made.store, {}, {id},
                    <<"GetByUsername", "GetByEmail", "CreateWithContext">>, <<>>)

----------------------------------------------------------------------------
(* Direct use of the service API: the specification SpecService.           *)

\* main() after srv.ListenAndServe has started and before a signal: the
\* server accepts requests and the database connection is open
Serving == [pc |-> "serving", server |-> "listening", db |-> "open",
            inflight |-> 0, waited |-> 0, exit |-> <<>>]

\* GenerateToken's output reaches a client, who keeps it
Remember(set, user, t, token) ==
    IF Cardinality(set) < MaxIssued
    THEN set \cup {[UserID |-> user.ID, Username |-> user.UsernameForLogin,
                    at |-> t, token |-> token]}
    ELSE set

InitService ==
    /\ now \in StartTime..(StartTime + TicksPerSecond - 1)
    /\ \E pf \in KeyFiles, pub \in KeyFiles, e \in Expiries :
          /\ svc = NewAuthService(pf, pub, e).svc
          /\ last = [op |-> "NewAuthService",
                     arg |-> [private |-> pf, public |-> pub, expiry |-> e],
                     at |-> now,
                     out |-> NewAuthService(pf, pub, e)]
    /\ users = {}
    /\ nextID = 1
    /\ issued = {}
    /\ reqs = [w \in Workers |-> IdleReq]
    /\ nreq = 0
    /\ limiter = [login |-> Full(LoginBurst), user |-> Full(UserBurst),
                  subscription |-> Full(SubscriptionBurst)]
    /\ subs = {}
    /\ nextSubID = 1
    /\ mu = <<>>
    /\ proc = Serving

Tick ==
    /\ now < MaxTime
    /\ now' = now + 1
    /\ limiter' = [login |-> Refill(limiter.login, LoginBurst),
                    user |-> Refill(limiter.user, UserBurst),
                    subscription |-> Refill(limiter.subscription,
                                            SubscriptionBurst)]
    /\ UNCHANGED <<subs, nextSubID, mu, proc, svc, users, nextID, issued, last, reqs, nreq>>

\* the largest primary key the service-level behaviours hand out
MaxID == 2

SvcCreateUser ==
    /\ svc # <<>>
    /\ last.op # "GetByUsername"
    /\ nextID <= MaxID
    /\ \E user \in { <<>>, <<NewUser(NAl, UAli, EA, PwP)>>,
                      <<NewUser(NBo, UBob, EB, PwLong)>> },
          salt \in BcryptSalts, rejectsLong \in BOOLEAN :
          LET out == CreateWithContext(users, user, salt, nextID, rejectsLong)
          IN  /\ users' = out.store
              /\ nextID' = IF out.err = "" THEN nextID + 1 ELSE nextID
              /\ last' = [op |-> "CreateWithContext", arg |-> user, at |-> now,
                          out |-> [user |-> out.user, err |-> out.err]]
    /\ UNCHANGED <<subs, nextSubID, mu, proc, now, svc, issued, reqs, nreq, limiter>>

\* the rows deleted are those of users who hold a token; deleting one a
\* second time finds no row
SvcDeleteUser ==
    /\ svc # <<>>
    /\ last.op # "GetByUsername"
    /\ \E id \in {i.UserID : i \in issued} :
          LET out == DeleteWithContext(users, id)
          IN  /\ users' = out.store
              /\ last' = [op |-> "DeleteWithContext", arg |-> id, at |-> now,
                          out |-> [err |-> out.err]]
    /\ UNCHANGED <<subs, nextSubID, mu, proc, now, svc, nextID, issued, reqs, nreq, limiter>>

\* the row of a user who holds a token is saved with another name and
\* e-mail address, which another row may hold already
SvcUpdateUser ==
    /\ svc # <<>>
    /\ last.op # "GetByUsername"
    /\ \E u \in users :
          /\ u.ID \in {i.UserID : i \in issued}
          /\ LET user == [u EXCEPT !.Name = NBo, !.Email = EB]
                 out == UpdateWithContext(users, <<user>>)
             IN  /\ users' = out.store
                 /\ last' = [op |-> "UpdateWithContext", arg |-> user,
                             at |-> now, out |-> [err |-> out.err]]
    /\ UNCHANGED <<subs, nextSubID, mu, proc, now, svc, nextID, issued, reqs, nreq, limiter>>

\* the timeouts of the contexts callers pass to Login, in ticks: one that
\* a slow lookup outlasts, and AuthHandler.Login's 10 * time.Second
LoginTimeout == 10 * TicksPerSecond
CtxTimeouts == {1, LoginTimeout}

\* a caller calls Login with a context that has a deadline.  With an empty
\* field Login returns at once; otherwise it is now inside
\* userRepo.GetByUsername, waiting for the database
SvcLoginCall ==
    /\ svc # <<>>
    /\ last.op # "GetByUsername"
    /\ \E username \in {UAli, <<>>}, password \in {PwP, PwQ, <<>>},
          timeout \in CtxTimeouts :
          \* a call that returns before the lookup is tried with one
          \* context and one non-empty password
          /\ username = <<>> \/ password = <<>>
                => timeout = LoginTimeout /\ password # PwQ
          /\ LET arg == [username |-> username, password |-> password,
                         called |-> now, deadline |-> now + timeout]
             IN  IF username = <<>> \/ password = <<>>
                 THEN last' = [op |-> "Login", arg |-> arg, at |-> now,
                               out |-> Login(svc[1], users, username, password,
                                             now)]
                 ELSE last' = [op |-> "GetByUsername", arg |-> arg, at |-> now,
                               out |-> <<>>]
    /\ UNCHANGED <<subs, nextSubID, mu, proc, now, svc, users, nextID, issued, reqs, nreq, limiter>>

\* the return of Login as it would be if Login saved the row it returns
\* with the password cleared
SvcLoginReturn_SavesUser ==
    /\ svc # <<>>
    /\ last.op = "GetByUsername"
    /\ \E failed \in BOOLEAN :
          LET store == IF failed THEN {} ELSE users
              out == Login(svc[1], store, last.arg.username,
                           last.arg.password, now)
          IN  /\ last' = [op |-> "Login", arg |-> last.arg, at |-> now,
                          out |-> out]
              /\ issued' = IF out.err = ""
                           THEN Remember(issued, out.user[1], now, out.token)
                           ELSE issued
              /\ users' = IF out.err = ""
                          THEN (users \ {out.user[1]})
                                 \cup {[out.user[1] EXCEPT !.Password = NoPassword]}
                          ELSE users
    /\ UNCHANGED <<subs, nextSubID, mu, proc, now, svc, nextID, reqs, nreq, limiter>>

\* the database answers the pending lookup, with the row or its absence or
\* with an error of its own, and Login runs to its return
SvcLoginReturn ==
    /\ svc # <<>>
    /\ last.op = "GetByUsername"
    /\ \E failed \in BOOLEAN :
          LET store == IF failed THEN {} ELSE users
              out == Login(svc[1], store, last.arg.username,
                           last.arg.password, now)
          IN  /\ last' = [op |-> "Login", arg |-> last.arg, at |-> now,
                          out |-> out]
              /\ issued' = IF out.err = ""
                           THEN Remember(issued, out.user[1], now, out.token)
                           ELSE issued
    /\ UNCHANGED <<subs, nextSubID, mu, proc, now, svc, users, nextID, reqs, nreq, limiter>>

SvcGenerateToken ==
    /\ svc # <<>>
    /\ last.op # "GetByUsername"
    /\ \E user \in {<<>>, <<NewUser(NAl, UAli, EA, PwP)>>}
                     \cup {<<u>> : u \in users} :
          LET out == GenerateToken(svc[1], user, now)
          IN  /\ last' = [op |-> "GenerateToken", arg |-> user, at |-> now,
                          out |-> out]
              /\ issued' = IF out.err = ""
                           THEN Remember(issued, user[1], now, out.token)
                           ELSE issued
    /\ UNCHANGED <<subs, nextSubID, mu, proc, now, svc, users, nextID, reqs, nreq, limiter>>

SvcValidateToken ==
    /\ svc # <<>>
    /\ last.op # "GetByUsername"
    /\ \E tokenStr \in {i.token : i \in issued} \cup ForeignTokens \cup BadStrings :
          last' = [op |-> "ValidateToken", arg |-> tokenStr, at |-> now,
                   out |-> ValidateToken(svc[1], tokenStr, now)]
    /\ UNCHANGED <<subs, nextSubID, mu, proc, now, svc, users, nextID, issued, reqs, nreq, limiter>>

\* AuthHandler.AuthMiddleware in front of a route, on a request without an
\* Authorization header or with one
SvcAuthMiddleware ==
    /\ svc # <<>>
    /\ last.op # "GetByUsername"
    /\ \E header \in {<<>>, <<BearerPrefix, Junk>>}
                        \cup {<<BearerPrefix>> \o i.token : i \in issued} :
          LET q == [IdleReq EXCEPT !.pc = "handler", !.route = "GetByID",
                                   !.guarded = TRUE, !.header = header]
          IN  last' = [op |-> "AuthMiddleware", arg |-> header, at |-> now,
                       out |-> AuthMiddleware(svc[1], q, now)]
    /\ UNCHANGED <<subs, nextSubID, mu, proc, now, svc, users, nextID, issued, reqs, nreq, limiter>>

\* last holds one call: while a Login waits for the database, the other
\* calls shown are the ones made before it or after its return
NextService ==
    \/ Tick
    \/ SvcCreateUser
    \/ SvcDeleteUser
    \/ SvcUpdateUser
    \/ SvcLoginCall
    \/ SvcLoginReturn
    \/ SvcGenerateToken
    \/ SvcValidateToken
    \/ SvcAuthMiddleware

SpecService == InitService /\ [][NextService]_vars

----------------------------------------------------------------------------
(* Password hashing on its own: the specification SpecPassword.  A user's   *)
(* password is hashed, and passwords are then checked against the hash.    *)

\* the longest of the enumerated short passwords
MaxPwLen == 3

PwBytes == {"p", NUL}

\* passwords of a few bytes, and passwords about as long as what the key
\* schedule reads
Passwords ==
    UNION {[1..n -> PwBytes] : n \in 0..MaxPwLen}
        \cup {Rep("q", KeyBytes - 1), Rep("q", KeyBytes),
              Rep("q", KeyBytes + 1), Rep("q", KeyBytes) \o <<"p">>}

InitPassword ==
    /\ now = StartTime
    /\ svc = <<>>
    /\ users = {}
    /\ nextID = 1
    /\ issued = {}
    /\ last = [op |-> "", arg |-> <<>>, at |-> now, out |-> <<>>]
    /\ reqs = [w \in Workers |-> IdleReq]
    /\ nreq = 0
    /\ limiter = [login |-> Full(LoginBurst), user |-> Full(UserBurst),
                  subscription |-> Full(SubscriptionBurst)]
    /\ subs = {}
    /\ nextSubID = 1
    /\ mu = <<>>
    /\ proc = Serving

\* User.HashPassword
PwHashPassword ==
    /\ \E pw \in Passwords, salt \in BcryptSalts, rejectsLong \in BOOLEAN :
          LET u == NewUser(NAl, UAli, EA, pw)
              arg == [user |-> u, password |-> pw, rejectsLong |-> rejectsLong]
          IN  IF rejectsLong /\ TooLong(pw)
              THEN last' = [op |-> "HashPassword", arg |-> arg, at |-> now,
                            out |-> [user |-> u, err |-> "ErrPasswordTooLong"]]
              ELSE last' = [op |-> "HashPassword", arg |-> arg, at |-> now,
                            out |-> [user |-> HashPassword(u, salt), err |-> ""]]
    /\ UNCHANGED <<subs, nextSubID, mu, proc, now, svc, users, nextID, issued, reqs, nreq, limiter>>

\* User.CheckPassword on a user whose password HashPassword has hashed
PwCheckPassword ==
    /\ last.op = "HashPassword"
    /\ last.out.err = ""
    /\ \E pw \in Passwords :
          last' = [op |-> "CheckPassword",
                   arg |-> [user |-> last.out.user, hashed |-> last.arg.password,
                            password |-> pw],
                   at |-> now,
                   out |-> [ok |-> CheckPassword(last.out.user, pw)]]
    /\ UNCHANGED <<subs, nextSubID, mu, proc, now, svc, users, nextID, issued, reqs, nreq, limiter>>

NextPassword ==
    \/ PwHashPassword
    \/ PwCheckPassword

SpecPassword == InitPassword /\ [][NextPassword]_vars

----------------------------------------------------------------------------
(* The server: the specification Spec.  main() builds the service with a   *)
(* 24 hour token expiry from the key files it finds, over a database that  *)
(* may already hold users, and then serves requests, each on its own       *)
(* worker.  A request to a route behind AuthMiddleware first runs the      *)
(* middleware and then, unless aborted, its handler as a later step.       *)

\* TokenExpiry: 24 * time.Hour
MainTokenExpiry == 24 * 3600 * TicksPerSecond

Ali1 == HashPassword([NewUser(NAl, UAli, EA, PwP) EXCEPT !.ID = 1], "s1")
Bob2 == HashPassword([NewUser(NBo, UBob, EB, PwQ) EXCEPT !.ID = 2], "s1")

\* tokens clients still hold from before this process started
Held(uid, username, key, exp) ==
    ForeignToken("RS256", "RS256", key,
                 ForeignClaims(uid, username, WindowStart - TicksPerSecond, exp))

TokAli == Held(1, UAli, "kA", WindowStart + MainTokenExpiry)
TokBob == Held(2, UBob, "kA", WindowStart + MainTokenExpiry)
TokAliOtherKey == Held(1, UAli, "kB", WindowStart + MainTokenExpiry)
TokAliExpired == Held(1, UAli, "kA", WindowStart)
TokAliHS ==
    ForeignToken("HS256", "HS256", "kA",
                 ForeignClaims(1, UAli, WindowStart - TicksPerSecond,
                               WindowStart + MainTokenExpiry))

Bearer(token) == <<BearerPrefix>> \o token

UserHeaders ==
    { <<>>, Bearer(<<>>), Bearer(<<Junk>>), Bearer(TokAli), Bearer(TokBob),
      Bearer(TokAliExpired), Bearer(TokAliOtherKey), Bearer(TokAliHS) }

ValidateHeaders ==
    { <<>>, Bearer(<<>>), Bearer(<<Junk>>), Bearer(TokAli), TokAli,
      Bearer(TokAliOtherKey), Bearer(TokAliHS), Bearer(TokAliExpired) }

PathIds == { <<"1">>, <<"2">>, <<"x">> }

LoginBody(username, password) ==
    [NoBody EXCEPT !.username = username, !.password = password]

LoginBodies ==
    { LoginBody(UAli, PwP), LoginBody(UAli, PwQ), LoginBody(UAliCaps, PwP),
      LoginBody(UBobPadded, PwQ), LoginBody(UBlank, PwP),
      LoginBody(UAli, PwShort), BadJSON }

CreateBody(name, username, email, password) ==
    [NoBody EXCEPT !.name = name, !.username = username, !.email = email,
                   !.password = password]

CreateBodies ==
    { CreateBody(NAl, UAli, EA, PwP), CreateBody(NBo, UBob, EB, PwQ),
      CreateBody(NAl, UAli, EA, PwShort),
      CreateBody(NAl, UAli, EDotless, PwP) }

UpdateBodies ==
    { [NoBody EXCEPT !.name = NBo, !.email = EB],
      [NoBody EXCEPT !.email = EDigitTLD], BadJSON }

Arrived(route, guarded, header, id, body) ==
    [IdleReq EXCEPT !.pc = "handler", !.route = route, !.guarded = guarded,
                    !.header = header, !.id = id, !.body = body]

\* the requests the handler of route may run on worker w: the one the
\* middleware let through, or one arriving on a route mounted without it
Pending(w, route, arrivals) ==
    IF reqs[w].pc = "handler" /\ reqs[w].route = route THEN {reqs[w]}
    ELSE IF reqs[w].pc = "idle" /\ nreq < MaxReq THEN arrivals
    ELSE {}

Count(w) == IF reqs[w].pc = "idle" THEN nreq + 1 ELSE nreq

Done(q, out) ==
    [q EXCEPT !.pc = "done", !.resp = out.resp, !.ran = q.ran \o <<q.route>>,
              !.calls = q.calls \o out.calls, !.ret = out.ret]

DoneStore(q, out) ==
    [Done(q, out) EXCEPT !.reads = out.reads, !.writes = out.writes]

Init ==
    /\ now = StartTime
    /\ \E pf \in {PrivateFile("kA", FALSE), MissingFile},
          pub \in {PublicFile("kA"), GarbageFile} :
          /\ svc = NewAuthService(pf, pub, MainTokenExpiry).svc
          /\ last = [op |-> "NewAuthService",
                     arg |-> [private |-> pf, public |-> pub,
                              expiry |-> MainTokenExpiry],
                     at |-> now,
                     out |-> NewAuthService(pf, pub, MainTokenExpiry)]
    /\ users \in { {}, {Ali1, Bob2} }
    /\ nextID = Cardinality(users) + 1
    /\ issued = {}
    /\ reqs = [w \in Workers |-> IdleReq]
    /\ nreq = 0
    \* the limiters' buckets are full, or a burst of earlier requests has
    \* just drained them
    /\ limiter \in { [login |-> Full(LoginBurst), user |-> Full(UserBurst),
                      subscription |-> Full(SubscriptionBurst)],
                     [login |-> 0, user |-> 0,
                      subscription |-> Full(SubscriptionBurst)] }
    /\ subs = {}
    /\ nextSubID = 1
    /\ mu = <<>>
    /\ proc = Serving

Middleware(w) ==
    /\ svc # <<>>
    /\ reqs[w].pc = "idle"
    /\ nreq < MaxReq
    /\ \E route \in {"GetByID", "UpdateByID"}, header \in UserHeaders,
          id \in PathIds, body \in UpdateBodies :
          /\ route = "GetByID" => body = BadJSON
          \* headers without a token of a registered user are tried on one
          \* path and body only: the middleware reads neither
          /\ header \notin {Bearer(TokAli), Bearer(TokBob)}
                => id = <<"2">> /\ body = BadJSON
          \* UpdateByID binds the body only when the path id is the
          \* caller's own: the other requests are tried with one body
          /\ body # BadJSON
                => \/ header = Bearer(TokAli) /\ id = <<"1">>
                   \/ header = Bearer(TokBob) /\ id = <<"2">>
          /\ LET q == Arrived(route, TRUE, header, id, body)
                 m == AuthMiddleware(svc[1], q, now)
             IN  reqs' = [reqs EXCEPT ![w] =
                            [q EXCEPT !.pc = IF m.abort THEN "done" ELSE "handler",
                                      !.resp = m.resp, !.ctx = m.ctx,
                                      !.ran = <<"AuthMiddleware">>,
                                      !.calls = m.calls, !.mw = m.ret]]
    /\ nreq' = nreq + 1
    /\ UNCHANGED <<subs, nextSubID, mu, proc, now, svc, users, nextID, issued, last, limiter>>

GetByID(w) ==
    /\ svc # <<>>
    /\ \E q \in Pending(w, "GetByID",
                        {Arrived("GetByID", FALSE, <<>>, id, BadJSON) :
                            id \in PathIds}) :
          reqs' = [reqs EXCEPT ![w] = DoneStore(q, HandleGetByID(users, q))]
    /\ nreq' = Count(w)
    /\ UNCHANGED <<subs, nextSubID, mu, proc, now, svc, users, nextID, issued, last, limiter>>

\* a level of a limiter's bucket at which Allow answers true: what a
\* request that is past the limiter saw
Admitted == TicksPerSecond

\* the answers UserHandler.Create and UserHandler.UpdateByID give before
\* they ask for h.mu: the limiter's, the binding's and the validation's,
\* and UpdateByID's to a path id that is no number or not the caller's own
AnsweredBeforeLock(resp) == resp.status \in {429, 400, 403}

\* UpdateByID up to h.mu.Lock(): the limiter's token is taken when the
\* request arrives, the look-ups and the save wait for the mutex
UpdateByID(w) ==
    /\ svc # <<>>
    /\ \E q \in Pending(w, "UpdateByID",
                        \* without the middleware no caller is bound and
                        \* the body is never read
                        {Arrived("UpdateByID", FALSE, <<>>, id, BadJSON) :
                            id \in PathIds}) :
          LET early == HandleUpdateByID(users, q, limiter.user)
          IN  reqs' = [reqs EXCEPT ![w] =
                         IF AnsweredBeforeLock(early.resp)
                         THEN DoneStore(q, early)
                         ELSE [q EXCEPT !.pc = "lock"]]
    /\ limiter' = [limiter EXCEPT !.user = Take(limiter.user)]
    /\ nreq' = Count(w)
    /\ UNCHANGED <<subs, nextSubID, mu, proc, now, svc, users, nextID, issued,
                   last>>

\* UpdateByID from h.mu.Lock() to its return: no other holder of h.mu
\* writes the table in between
UpdateByIDLocked(w) ==
    /\ reqs[w].pc = "lock"
    /\ reqs[w].route = "UpdateByID"
    /\ LET out == HandleUpdateByID(users, reqs[w], Admitted)
       IN  /\ reqs' = [reqs EXCEPT ![w] = DoneStore(reqs[w], out)]
           /\ users' = out.store
    /\ UNCHANGED <<subs, nextSubID, mu, proc, now, svc, nextID, issued, last,
                   nreq, limiter>>

\* Create up to h.mu.Lock()
Create(w) ==
    /\ svc # <<>>
    /\ \E q \in Pending(w, "Create",
                        {Arrived("Create", FALSE, <<>>, <<>>, body) :
                            body \in CreateBodies}),
          salt \in BcryptSalts :
          LET early == HandleCreate(users, q, limiter.user, salt, nextID, FALSE)
          IN  reqs' = [reqs EXCEPT ![w] =
                         IF AnsweredBeforeLock(early.resp)
                         THEN DoneStore(q, early)
                         ELSE [q EXCEPT !.pc = "lock"]]
    /\ limiter' = [limiter EXCEPT !.user = Take(limiter.user)]
    /\ nreq' = Count(w)
    /\ UNCHANGED <<subs, nextSubID, mu, proc, now, svc, users, nextID, issued,
                   last>>

\* Create from h.mu.Lock() to its return, built with either release of
\* bcrypt
CreateLocked(w) ==
    /\ reqs[w].pc = "lock"
    /\ reqs[w].route = "Create"
    /\ \E salt \in BcryptSalts, rejectsLong \in BOOLEAN :
          LET out == HandleCreate(users, reqs[w], Admitted, salt, nextID,
                                  rejectsLong)
          IN  /\ reqs' = [reqs EXCEPT ![w] = DoneStore(reqs[w], out)]
              /\ users' = out.store
              /\ nextID' = IF out.writes # {} THEN nextID + 1 ELSE nextID
    /\ UNCHANGED <<subs, nextSubID, mu, proc, now, svc, issued, last, nreq,
                   limiter>>

\* the rows userRepo.GetByUsername finds for request q in table store
LookedUp(store, q) ==
    LET found == GetByUsername(store, TrimSpace(q.body.username))
    IN  IF found.err = "" THEN {found.user[1]} ELSE {}

\* AuthHandler.Login up to the query of userRepo.GetByUsername: the
\* limiter's token is taken when the request arrives
LoginRequest(w) ==
    /\ svc # <<>>
    /\ \E q \in Pending(w, "Login",
                        {Arrived("Login", FALSE, <<>>, <<>>, body) :
                            body \in LoginBodies}) :
          LET early == HandleLogin(svc[1], users, q, now, limiter.login)
          IN  reqs' = [reqs EXCEPT ![w] =
                         IF \/ early.resp.status \in {429, 400}
                            \/ early.calls = <<"Login">>
                         THEN Done(q, early)
                         ELSE [q EXCEPT !.pc = "lookup"]]
    /\ limiter' = [limiter EXCEPT !.login = Take(limiter.login)]
    /\ nreq' = Count(w)
    /\ UNCHANGED <<subs, nextSubID, mu, proc, now, svc, users, nextID, issued,
                   last>>

\* the database runs the query: ret holds the rows it found
LoginLookup(w) ==
    /\ reqs[w].pc = "lookup"
    /\ reqs' = [reqs EXCEPT ![w].pc = "sign",
                            ![w].ret = <<LookedUp(users, reqs[w])>>]
    /\ UNCHANGED <<subs, nextSubID, mu, proc, now, svc, users, nextID, issued,
                   last, nreq, limiter>>

\* AuthService.Login goes on with what the query returned: the password
\* is compared and the token is signed at the clock's reading by then
LoginReturn(w) ==
    /\ svc # <<>>
    /\ reqs[w].pc = "sign"
    /\ LET out == HandleLogin(svc[1], reqs[w].ret[1], reqs[w], now, Admitted)
       IN  /\ reqs' = [reqs EXCEPT ![w] = Done(reqs[w], out)]
           /\ issued' = IF out.resp.status = 200
                        THEN Remember(issued, out.ret[1].user[1], now,
                                      out.ret[1].token)
                        ELSE issued
    /\ UNCHANGED <<subs, nextSubID, mu, proc, now, svc, users, nextID, last,
                   nreq, limiter>>

ValidateRequest(w) ==
    /\ svc # <<>>
    /\ \E q \in Pending(w, "ValidateToken",
                        {Arrived("ValidateToken", FALSE, header, <<>>, BadJSON) :
                            header \in ValidateHeaders
                                \cup {Bearer(i.token) : i \in issued}}) :
          reqs' = [reqs EXCEPT ![w] =
                     Done(q, HandleValidateToken(svc[1], q, now))]
    /\ nreq' = Count(w)
    /\ UNCHANGED <<subs, nextSubID, mu, proc, now, svc, users, nextID, issued, last, limiter>>

\* the response is written and the request's context is discarded
Finish(w) ==
    /\ reqs[w].pc = "done"
    /\ reqs' = [reqs EXCEPT ![w] = IdleReq]
    /\ UNCHANGED <<subs, nextSubID, mu, proc, now, svc, users, nextID, issued, last, nreq, limiter>>

Next ==
    \/ Tick
    \/ \E w \in Workers : Middleware(w)
    \/ \E w \in Workers : GetByID(w)
    \/ \E w \in Workers : UpdateByID(w)
    \/ \E w \in Workers : UpdateByIDLocked(w)
    \/ \E w \in Workers : Create(w)
    \/ \E w \in Workers : CreateLocked(w)
    \/ \E w \in Workers : LoginRequest(w)
    \/ \E w \in Workers : LoginLookup(w)
    \/ \E w \in Workers : LoginReturn(w)
    \/ \E w \in Workers : ValidateRequest(w)
    \/ \E w \in Workers : Finish(w)

Spec == Init /\ [][Next]_vars

----------------------------------------------------------------------------
(* User subscriptions: models.UserSubscription, its repository              *)
(* (unnamed/part_011) and UserSubscriptionHandler                           *)
(* (internal/handlers/user_subscription.go, the version with contexts).     *)
(* Dates are clock readings in ticks; in a request body a date is <<>>      *)
(* (the zero time.Time, absent from the JSON) or <<t>>.                     *)

Day == 24 * 3600 * TicksPerSecond

\* the days between a date and the same date of the next year
YearDays == {365, 366}

\* time.Time.AddDate(1, 0, 0) on a reading whose year to come has that
\* many days
AddYear(t, days) == t + days * Day

Individual == "individual"
Enterprise == "enterprise"

\* a request body bound into a models.UserSubscription by ShouldBindJSON:
\* every field the JSON omits keeps its zero value
NoSubBody ==
    [ok |-> TRUE, ID |-> 0, Type |-> "", CompanyName |-> "", Role |-> "",
     StartDate |-> <<>>, EndDate |-> <<>>, IsActive |-> FALSE]

HandlerError(status, message) == <<[Status |-> status, Message |-> message]>>

\* validateSubscriptionDates as it would be without the test of the start
\* date against the clock
validateSubscriptionDates_AnyStart(start, end, t) ==
    IF end < start
    THEN HandlerError(400, "End date must be after start date")
    ELSE <<>>

\* validateSubscriptionDates at clock reading t: <<>> is nil
validateSubscriptionDates(start, end, t) ==
    IF end < start
    THEN HandlerError(400, "End date must be after start date")
    ELSE IF start < t - Day
    THEN HandlerError(400, "Start date cannot be in the past")
    ELSE <<>>

validateSubscriptionType(subType) ==
    IF subType # Individual /\ subType # Enterprise
    THEN HandlerError(400, "Invalid subscription type")
    ELSE <<>>

\* fmt.Errorf("%w: %v", ErrDatabaseOperation, err): errors.Is finds
\* ErrDatabaseOperation in the result and nothing else, the error under %v
\* is kept as text only
Wrapped(cause) == [is |-> {"ErrDatabaseOperation"}, text |-> cause]
NoError == [is |-> {}, text |-> ""]

\* errors.Is(err, target) for the sentinel errors of the repositories
ErrorsIs(err, target) == target \in err.is

\* UserSubscriptionRepository.CreateWithContext on the pointer us, <<>>
\* (nil) or <<UserSubscription>>: t is the clock's reading when the
\* method stamps the struct, tq the reading inside the transaction, on
\* table store; seq is the key the table's sequence gives a row that
\* brings none, and insert tells that tx.Create was reached.  The result's
\* us is what the pointer refers to afterwards
SubscriptionCreateWithContext(store, us, t, tq, seq) ==
    IF us = <<>>
    THEN [store |-> store, us |-> <<>>, insert |-> FALSE,
          err |-> [is |-> {"ErrInvalidInput"}, text |-> "invalid input"]]
    ELSE LET stamped == [us[1] EXCEPT !.CreatedAt = t, !.UpdatedAt = t]
             row == [stamped EXCEPT !.ID = IF @ = 0 THEN seq ELSE @]
         IN  IF \E r \in store : /\ r.UserID = stamped.UserID
                                 /\ r.SubscriptionID = stamped.SubscriptionID
                                 /\ r.EndDate > tq
             THEN [store |-> store, us |-> <<stamped>>, insert |-> FALSE,
                   err |-> Wrapped("active subscription already exists")]
             ELSE IF \E r \in store : r.ID = row.ID
             THEN [store |-> store, us |-> <<stamped>>, insert |-> TRUE,
                   err |-> Wrapped("duplicate key")]
             ELSE [store |-> store \cup {row}, us |-> <<row>>,
                   insert |-> TRUE, err |-> NoError]

\* UserSubscriptionRepository.GetByIDWithContext
SubscriptionGetByIDWithContext(store, id) ==
    IF \E r \in store : r.ID = id
    THEN [us |-> <<CHOOSE r \in store : r.ID = id>>, err |-> NoError]
    ELSE [us |-> <<>>, err |-> [is |-> {"ErrNotFound"}, text |-> "record not found"]]

\* UserSubscriptionRepository.GetByUserIDWithContext
GetByUserIDWithContext(store, userID) == {r \in store : r.UserID = userID}

\* UserSubscriptionRepository.UpdateWithContext on the pointer us, <<>>
\* (nil) or <<UserSubscription>>: t is the clock's reading when the
\* method stamps the struct, ts the reading when tx.Save builds its
\* statement, which sets UpdatedAt once more in the row and in the struct.
\* The result's us is what the pointer refers to afterwards
SubscriptionUpdateWithContext(store, us, t, ts) ==
    IF us = <<>>
    THEN [store |-> store, us |-> <<>>,
          err |-> [is |-> {"ErrInvalidInput"}, text |-> "invalid input"]]
    ELSE LET stamped == [us[1] EXCEPT !.UpdatedAt = t]
             saved == [us[1] EXCEPT !.UpdatedAt = ts]
         IN  IF \A r \in store : r.ID # stamped.ID
             THEN [store |-> store, us |-> <<stamped>>,
                   err |-> Wrapped("ErrNotFound")]
             ELSE [store |-> {r \in store : r.ID # saved.ID} \cup {saved},
                   us |-> <<saved>>, err |-> NoError]

\* UserSubscriptionRepository.CancelSubscription at clock reading t
CancelSubscription(store, id, t) ==
    IF \A r \in store : ~(r.ID = id /\ r.IsActive)
    THEN [store |-> store, err |-> Wrapped("ErrNotFound")]
    ELSE [store |-> {IF r.ID = id
                     THEN [r EXCEPT !.IsActive = FALSE, !.UpdatedAt = t]
                     ELSE r : r \in store},
          err |-> NoError]

\* what a subscription handler hands back: the response, the table after
\* it, the users whose subscriptions it looked up and stored, the
\* repository methods it reached, and whether tx.Create took a key from
\* the table's sequence
SubResult(resp, store, reads, writes, calls, seqUsed) ==
    [resp |-> resp, store |-> store, reads |-> reads, writes |-> writes,
     calls |-> calls, seqUsed |-> seqUsed]

SubError(e, store) == SubResult(JSON(e[1].Status, e[1].Message), store, {}, {}, <<>>, FALSE)

\* UserSubscriptionHandler.Create (POST /user/:userId/subscription/
\* :subscriptionId); level is the limiter's bucket, t the clock's reading
\* under the lock, days the length of the year after it, and tq the
\* reading inside the repository's transaction, which runs on table store
HandleSubscriptionCreate(store, q, level, t, tq, seq, days) ==
    LET userID == ParseUint(q.userId)
        subscriptionID == ParseUint(q.subscriptionId)
        startDate == IF q.body.StartDate = <<>> THEN t ELSE q.body.StartDate[1]
        endDate == IF q.body.EndDate = <<>> THEN AddYear(t, days)
                   ELSE q.body.EndDate[1]
        us == [ID |-> q.body.ID, UserID |-> userID.n,
               SubscriptionID |-> subscriptionID.n, Type |-> q.body.Type,
               CompanyName |-> q.body.CompanyName, Role |-> q.body.Role,
               StartDate |-> startDate, EndDate |-> endDate,
               IsActive |-> TRUE, CreatedAt |-> 0, UpdatedAt |-> 0]
        dates == validateSubscriptionDates(startDate, endDate, t)
        made == SubscriptionCreateWithContext(store, <<us>>, t, tq, seq)
    IN  IF ~Allow(level)
        THEN SubError(HandlerError(429, "Rate limit exceeded"), store)
        ELSE IF userID.err # ""
        THEN SubError(HandlerError(400, "Invalid user ID"), store)
        ELSE IF subscriptionID.err # ""
        THEN SubError(HandlerError(400, "Invalid subscription ID"), store)
        ELSE IF ~q.body.ok
        THEN SubError(HandlerError(400, "Invalid request body"), store)
        ELSE IF validateSubscriptionType(q.body.Type) # <<>>
        THEN SubError(validateSubscriptionType(q.body.Type), store)
        ELSE IF dates # <<>>
        THEN SubError(dates, store)
        ELSE IF made.err # NoError
        THEN SubResult(JSON(500, "Failed to create subscription"), store,
                       {userID.n}, {}, <<"CreateWithContext">>,
                       made.insert /\ us.ID = 0)
        ELSE SubResult(OK(201, made.us[1]), made.store, {userID.n}, {userID.n},
                       <<"CreateWithContext">>, us.ID = 0)

\* UserSubscriptionHandler.GetUserSubscriptions (GET /user/:userId/
\* subscription)
HandleGetUserSubscriptions(store, q) ==
    LET userID == ParseUint(q.userId)
    IN  IF userID.err # ""
        THEN SubError(HandlerError(400, "Invalid user ID"), store)
        ELSE SubResult(OK(200, GetByUserIDWithContext(store, userID.n)),
                       store, {userID.n}, {}, <<"GetByUserIDWithContext">>,
                       FALSE)

\* UserSubscriptionHandler.updateSubscriptionFields
updateSubscriptionFields(current, new) ==
    [current EXCEPT
        !.Type = IF new.Type # "" THEN new.Type ELSE @,
        !.CompanyName = IF new.CompanyName # "" THEN new.CompanyName ELSE @,
        !.Role = IF new.Role # "" THEN new.Role ELSE @,
        !.StartDate = IF new.StartDate # <<>> THEN new.StartDate[1] ELSE @,
        !.EndDate = IF new.EndDate # <<>> THEN new.EndDate[1] ELSE @,
        !.IsActive = new.IsActive]

\* UserSubscriptionHandler.UpdateUserSubscription (PATCH /user/:userId/
\* subscription/:subscriptionId): read is the table as GetByIDWithContext
\* finds it, t the clock's reading when the handler goes on from there,
\* store the table the transaction of UpdateWithContext runs on and ts the
\* clock's reading at its tx.Save
HandleUpdateUserSubscription(read, store, q, level, t, ts) ==
    LET userID == ParseUint(q.userId)
        subscriptionID == ParseUint(q.subscriptionId)
        found == SubscriptionGetByIDWithContext(read, subscriptionID.n)
        currentUs == updateSubscriptionFields(found.us[1], q.body)
        dates == validateSubscriptionDates(currentUs.StartDate,
                                           currentUs.EndDate, t)
        saved == SubscriptionUpdateWithContext(store, <<currentUs>>, t, ts)
    IN  IF ~Allow(level)
        THEN SubError(HandlerError(429, "Rate limit exceeded"), store)
        ELSE IF userID.err # ""
        THEN SubError(HandlerError(400, "Invalid user ID"), store)
        ELSE IF subscriptionID.err # ""
        THEN SubError(HandlerError(400, "Invalid subscription ID"), store)
        ELSE IF found.err # NoError
        THEN SubResult(JSON(404, "User subscription not found"), store, {},
                       {}, <<"GetByIDWithContext">>, FALSE)
        ELSE IF found.us[1].UserID # userID.n
        THEN SubResult(JSON(403, "Subscription does not belong to specified user"),
                       store, {found.us[1].UserID}, {},
                       <<"GetByIDWithContext">>, FALSE)
        ELSE IF ~q.body.ok
        THEN SubResult(JSON(400, "Invalid request body"), store, {userID.n},
                       {}, <<"GetByIDWithContext">>, FALSE)
        ELSE IF q.body.Type # "" /\ validateSubscriptionType(q.body.Type) # <<>>
        THEN SubResult(JSON(400, "Invalid subscription type"), store,
                       {userID.n}, {}, <<"GetByIDWithContext">>, FALSE)
        ELSE IF (q.body.StartDate # <<>> \/ q.body.EndDate # <<>>) /\ dates # <<>>
        THEN SubResult(JSON(dates[1].Status, dates[1].Message), store,
                       {userID.n}, {}, <<"GetByIDWithContext">>, FALSE)
        ELSE IF saved.err # NoError
        THEN SubResult(JSON(500, "Failed to update subscription"), store,
                       {userID.n}, {},
                       <<"GetByIDWithContext", "UpdateWithContext">>, FALSE)
        ELSE SubResult(OK(200, saved.us[1]),
                       saved.store, {userID.n}, {userID.n},
                       <<"GetByIDWithContext", "UpdateWithContext">>, FALSE)

----------------------------------------------------------------------------
(* The subscription routes: the specification SpecSubscription.            *)
(* SetupUserSubscriptionRoutes (unnamed/part_007) mounts the three handlers *)
(* on /user/:userId/subscription with no middleware in front of them.  The *)
(* last request answered, or repository call made, is kept in last.        *)

\* the most rows the user_subscriptions table is filled with
MaxSubs == 2

\* the most requests sent to the rate-limited subscription routes
MaxSubReq == 3

\* the most requests to the rate-limited subscription routes that are
\* past the limiter and not yet answered
MaxSubInflight == 1

\* the ticks of the clock the subscription routes are followed for
SubTicks == 1

BadSubJSON == [NoSubBody EXCEPT !.ok = FALSE]

\* a request to a subscription route
SubRequest(route, header, userId, subscriptionId, body) ==
    [route |-> route, header |-> header, userId |-> userId,
     subscriptionId |-> subscriptionId, body |-> body]

\* bodies tried on Create at clock reading t
SubCreateBodies(t) ==
    { [NoSubBody EXCEPT !.Type = Individual],
      [NoSubBody EXCEPT !.Type = Enterprise, !.CompanyName = "acme",
                        !.Role = "admin", !.StartDate = <<t - Day>>,
                        !.EndDate = <<t>>],
      [NoSubBody EXCEPT !.Type = Individual, !.StartDate = <<t>>,
                        !.EndDate = <<t>>],
      [NoSubBody EXCEPT !.Type = Individual, !.StartDate = <<t>>,
                        !.EndDate = <<t - 1>>],
      [NoSubBody EXCEPT !.Type = Individual, !.StartDate = <<t - Day - 1>>,
                        !.EndDate = <<t + Day>>],
      NoSubBody,
      BadSubJSON }

\* bodies tried on UpdateUserSubscription at clock reading t
SubUpdateBodies(t) ==
    { NoSubBody,
      [NoSubBody EXCEPT !.IsActive = TRUE, !.Role = "owner"],
      [NoSubBody EXCEPT !.IsActive = TRUE, !.EndDate = <<t + Day>>],
      [NoSubBody EXCEPT !.IsActive = TRUE, !.EndDate = <<t - Day>>],
      [NoSubBody EXCEPT !.IsActive = TRUE, !.EndDate = <<t - Day - 2>>],
      [NoSubBody EXCEPT !.IsActive = TRUE, !.StartDate = <<t - Day - 1>>],
      [NoSubBody EXCEPT !.IsActive = TRUE, !.Type = "bogus"],
      BadSubJSON }

\* the callers: without a token, and with the token of user 2
SubHeaders == { <<>>, Bearer(TokBob) }

\* a worker of the subscription routes: pc is idle, lock (past the
\* limiter and the parsing of the path, waiting for h.mu), check (under
\* h.mu, waiting for the row GetByIDWithContext reads) or store (under
\* h.mu, waiting for the repository's transaction); arg is the request, at
\* the clock's reading the handler took under the lock, days the length of
\* the year after it, read the row GetByIDWithContext returned
IdleSub == [pc |-> "idle", arg |-> <<>>, at |-> 0, days |-> 0, read |-> {}]

InitSubscription ==
    /\ now = StartTime
    /\ svc = NewAuthService(PrivateFile("kA", FALSE), PublicFile("kA"),
                            MainTokenExpiry).svc
    /\ users = {Ali1, Bob2}
    /\ nextID = 3
    /\ issued = {}
    /\ last = [op |-> "", arg |-> <<>>, at |-> now, before |-> {},
               out |-> <<>>]
    /\ reqs = [w \in Workers |-> IdleSub]
    /\ nreq = 0
    /\ limiter \in { [login |-> Full(LoginBurst), user |-> Full(UserBurst),
                      subscription |-> Full(SubscriptionBurst)],
                     [login |-> Full(LoginBurst), user |-> Full(UserBurst),
                      subscription |-> 0] }
    /\ subs = {}
    /\ nextSubID = 1
    /\ mu = <<>>
    /\ proc = Serving

\* what last keeps of a handler's result
Answer(out) ==
    [resp |-> out.resp, reads |-> out.reads, writes |-> out.writes,
     calls |-> out.calls]

\* what Create or UpdateUserSubscription answers before it asks for h.mu,
\* <<>> when it goes on to h.mu.Lock(): the limiter's answer and the
\* parsing of the path, and for Create the binding of the body and the
\* check of the type.  Neither the table nor the clock is read by then
SubBeforeLock(q, level) ==
    LET out == IF q.route = "Create"
               THEN HandleSubscriptionCreate({}, q, level, 0, 0, 0, 0)
               ELSE HandleUpdateUserSubscription({}, {}, q, level, 0, 0)
        paths == {"Rate limit exceeded", "Invalid user ID",
                  "Invalid subscription ID"}
        early == IF q.route = "Create"
                 THEN paths \cup {"Invalid request body",
                                  "Invalid subscription type"}
                 ELSE paths
    IN  IF out.resp.error \in early THEN <<out>> ELSE <<>>

\* the clock advances while the subscription routes are followed
SubTick ==
    /\ now < StartTime + SubTicks
    /\ Tick

\* a request arrives at worker w and runs up to h.mu.Lock(): the limiter's
\* token is taken now
SubArrive(w, q) ==
    LET early == SubBeforeLock(q, limiter.subscription)
    IN  /\ reqs[w].pc = "idle"
        \* the idle workers are alike: the first of them takes the request
        /\ \A v \in Workers : reqs[v].pc = "idle" => v = w \/ w = "w1"
        /\ Cardinality({v \in Workers : reqs[v].pc # "idle"}) < MaxSubInflight
        /\ nreq < MaxSubReq
        /\ IF early # <<>>
           THEN /\ last' = [op |-> q.route, arg |-> q, at |-> now,
                            before |-> {}, out |-> Answer(early[1])]
                /\ reqs' = reqs
           ELSE /\ reqs' = [reqs EXCEPT ![w] =
                              [IdleSub EXCEPT !.pc = "lock", !.arg = q]]
                /\ last' = last
        /\ limiter' = [limiter EXCEPT
                          !.subscription = Take(limiter.subscription)]
        /\ nreq' = nreq + 1
        /\ UNCHANGED <<now, svc, users, nextID, issued, subs, nextSubID, mu,
                       proc>>

\* POST /user/:userId/subscription/:subscriptionId arrives
SubCreate(w) ==
    /\ nextSubID <= MaxSubs
    /\ \E userId \in {<<"1">>, <<"x">>}, subscriptionId \in {<<"1">>, <<"x">>},
          body \in SubCreateBodies(now) :
          /\ userId = <<"x">> \/ subscriptionId = <<"x">>
                => /\ body = [NoSubBody EXCEPT !.Type = Individual]
                   /\ userId # subscriptionId
          /\ SubArrive(w, SubRequest("Create", <<>>, userId, subscriptionId,
                                     body))

\* Create takes h.mu, reads the clock, fills in the dates the body left
\* out and validates them; CreateWithContext stamps the struct and asks
\* the database for a transaction
SubCreateLocked(w) ==
    /\ reqs[w].pc = "lock"
    /\ reqs[w].arg.route = "Create"
    /\ mu = <<>>
    /\ \E days \in YearDays :
          LET q == reqs[w].arg
              out == HandleSubscriptionCreate(subs, q, Admitted, now, now,
                                              nextSubID, days)
          IN  \* the year's length is read only for an omitted end date
              /\ q.body.EndDate # <<>> => days = 365
              /\ IF out.calls = <<>>
                 THEN /\ last' = [op |-> "Create", arg |-> q, at |-> now,
                                  before |-> {}, out |-> Answer(out)]
                      /\ reqs' = [reqs EXCEPT ![w] = IdleSub]
                      /\ mu' = mu
                 ELSE /\ reqs' = [reqs EXCEPT ![w].pc = "store",
                                              ![w].at = now,
                                              ![w].days = days]
                      /\ mu' = <<w>>
                      /\ last' = last
    /\ UNCHANGED <<now, svc, users, nextID, issued, nreq, limiter, subs,
                   nextSubID, proc>>

\* the transaction of CreateWithContext runs, Create answers and the
\* deferred h.mu.Unlock() runs
SubCreateStore(w) ==
    /\ reqs[w].pc = "store"
    /\ reqs[w].arg.route = "Create"
    /\ LET q == reqs[w].arg
           out == HandleSubscriptionCreate(subs, q, Admitted, reqs[w].at, now,
                                           nextSubID, reqs[w].days)
       IN  /\ subs' = out.store
           /\ nextSubID' = IF out.seqUsed THEN nextSubID + 1 ELSE nextSubID
           /\ last' = [op |-> "Create", arg |-> q, at |-> reqs[w].at,
                       before |-> {}, out |-> Answer(out)]
    /\ reqs' = [reqs EXCEPT ![w] = IdleSub]
    /\ mu' = <<>>
    /\ UNCHANGED <<now, svc, users, nextID, issued, nreq, limiter, proc>>

\* GET /user/:userId/subscription: the handler parses the path, waits at
\* h.mu.RLock() while Create or UpdateUserSubscription holds h.mu, and
\* reads the table
SubGet ==
    /\ \E header \in SubHeaders, userId \in {<<"1">>, <<"x">>} :
          /\ header # <<>> => userId = <<"1">>
          /\ mu = <<>> \/ ParseUint(userId).err # ""
          /\ LET q == SubRequest("GetUserSubscriptions", header, userId,
                                 <<>>, NoSubBody)
             IN  last' = [op |-> "GetUserSubscriptions", arg |-> q,
                          at |-> now, before |-> {},
                          out |-> Answer(HandleGetUserSubscriptions(subs, q))]
    /\ UNCHANGED <<now, svc, users, nextID, issued, reqs, nreq, limiter,
                   subs, nextSubID, mu, proc>>

\* PATCH /user/:userId/subscription/:subscriptionId arrives
SubUpdate(w) ==
    /\ \E userId \in {<<"1">>, <<"2">>},
          subscriptionId \in {<<"1">>, <<"2">>, <<"x">>},
          body \in SubUpdateBodies(now) :
          \* the requests for another user, for the second row and for a
          \* key that is no number are sent with one body
          /\ userId = <<"2">> \/ subscriptionId # <<"1">>
                => /\ body = NoSubBody
                   /\ userId = <<"1">> \/ subscriptionId = <<"1">>
          /\ SubArrive(w, SubRequest("UpdateUserSubscription", <<>>, userId,
                                     subscriptionId, body))

\* the row GetByIDWithContext finds for request q in table store
SubLookedUp(store, q) ==
    {r \in store : r.ID = ParseUint(q.subscriptionId).n}

\* UpdateUserSubscription takes h.mu and GetByIDWithContext reads the row
SubUpdateLocked(w) ==
    /\ reqs[w].pc = "lock"
    /\ reqs[w].arg.route = "UpdateUserSubscription"
    /\ mu = <<>>
    /\ reqs' = [reqs EXCEPT ![w].pc = "check",
                            ![w].read = SubLookedUp(subs, reqs[w].arg)]
    /\ mu' = <<w>>
    /\ UNCHANGED <<now, svc, users, nextID, issued, last, nreq, limiter, subs,
                   nextSubID, proc>>

\* with the row GetByIDWithContext returned in hand, UpdateUserSubscription
\* checks the owner, binds and checks the body, applies it and validates
\* the dates against the clock as it reads by now; it answers and the
\* deferred h.mu.Unlock() runs, or UpdateWithContext stamps the struct and
\* asks the database for a transaction.  The table may have changed since
\* the row was read: CancelSubscription takes no h.mu
SubUpdateChecked(w) ==
    /\ reqs[w].pc = "check"
    /\ reqs[w].arg.route = "UpdateUserSubscription"
    /\ LET q == reqs[w].arg
           out == HandleUpdateUserSubscription(reqs[w].read, subs, q,
                                               Admitted, now, now)
       IN  IF "UpdateWithContext" \notin {out.calls[i] : i \in 1..Len(out.calls)}
           THEN /\ last' = [op |-> "UpdateUserSubscription", arg |-> q,
                            at |-> now, before |-> reqs[w].read,
                            stored |-> SubLookedUp(subs, q),
                            out |-> Answer(out)]
                /\ reqs' = [reqs EXCEPT ![w] = IdleSub]
                /\ subs' = out.store
                /\ mu' = <<>>
           ELSE /\ reqs' = [reqs EXCEPT ![w].pc = "store", ![w].at = now]
                /\ subs' = subs
                /\ mu' = mu
                /\ last' = last
    /\ UNCHANGED <<now, svc, users, nextID, issued, nreq, limiter, nextSubID,
                   proc>>

\* the transaction of UpdateWithContext runs on the table as it is by
\* now and saves the struct made from the row read before;
\* UpdateUserSubscription answers and the deferred h.mu.Unlock() runs
SubUpdateStore(w) ==
    /\ reqs[w].pc = "store"
    /\ reqs[w].arg.route = "UpdateUserSubscription"
    /\ LET q == reqs[w].arg
           out == HandleUpdateUserSubscription(reqs[w].read, subs, q,
                                               Admitted, reqs[w].at, now)
       IN  /\ subs' = out.store
           /\ last' = [op |-> "UpdateUserSubscription", arg |-> q,
                       at |-> reqs[w].at, before |-> reqs[w].read,
                       stored |-> SubLookedUp(subs, q),
                       out |-> Answer(out)]
    /\ reqs' = [reqs EXCEPT ![w] = IdleSub]
    /\ mu' = <<>>
    /\ UNCHANGED <<now, svc, users, nextID, issued, nreq, limiter, nextSubID,
                   proc>>

\* a direct call of UserSubscriptionRepository.CancelSubscription
SubCancel ==
    /\ \E id \in 1..MaxSubs :
          LET out == CancelSubscription(subs, id, now)
          IN  /\ subs' = out.store
              /\ last' = [op |-> "CancelSubscription", arg |-> id, at |-> now,
                          before |-> {r \in subs : r.ID = id},
                          out |-> [err |-> out.err]]
    /\ UNCHANGED <<now, svc, users, nextID, issued, reqs, nreq, limiter,
                   nextSubID, mu, proc>>

NextSubscription ==
    \/ SubTick
    \/ \E w \in Workers : SubCreate(w)
    \/ \E w \in Workers : SubCreateLocked(w)
    \/ \E w \in Workers : SubCreateStore(w)
    \/ SubGet
    \/ \E w \in Workers : SubUpdate(w)
    \/ \E w \in Workers : SubUpdateLocked(w)
    \/ \E w \in Workers : SubUpdateChecked(w)
    \/ \E w \in Workers : SubUpdateStore(w)
    \/ SubCancel

SpecSubscription == InitSubscription /\ [][NextSubscription]_vars

----------------------------------------------------------------------------
(* Properties of the user routes and of AuthMiddleware, under Spec.        *)

\* request q has been answered by the handler of its route
Handled(q) ==
    q.pc = "done" /\ q.ran # <<>> /\ q.ran[Len(q.ran)] = q.route

\* request q is for the user record its path names, and is made either as
\* another subject or with no authenticated context at all
ForeignSubject(q) ==
    /\ q.route \in {"GetByID", "UpdateByID"}
    /\ ParseUint(q.id).err = ""
    /\ q.ctx = <<>> \/ q.ctx[1].user_id # ParseUint(q.id).n

Forbidden == JSON(403, "unauthorized access")

\* C1 as stated: every request to GetByID or UpdateByID for path id B made
\* as a subject A # B, or with no authenticated context, is answered
\* Forbidden, and B's record is neither read nor written.
C1_AlwaysForbidden ==
    \A w \in Workers :
        LET q == reqs[w]
        IN  Handled(q) /\ ForeignSubject(q) =>
                /\ q.resp = Forbidden
                /\ ParseUint(q.id).n \notin q.reads \cup q.writes

\* C1 amended: such a request is answered Forbidden, unless it is an
\* UpdateByID the handler's rate limiter turns away first (429); either
\* way no user record is read or written on its behalf.
C1_ForbiddenOrLimited ==
    \A w \in Workers :
        LET q == reqs[w]
        IN  Handled(q) /\ ForeignSubject(q) =>
                /\ \/ q.resp = Forbidden
                   \/ /\ q.route = "UpdateByID"
                      /\ q.resp = JSON(429, "rate limit exceeded")
                /\ q.reads = {}
                /\ q.writes = {}
                /\ q.calls \in {<<>>, <<"ValidateToken">>}

\* a request made with a valid token of subject 1 for the existing record
\* of user 2 has been answered Forbidden
C1_Witness ==
    \E w \in Workers :
        LET q == reqs[w]
        IN  /\ Handled(q) /\ ForeignSubject(q)
            /\ q.guarded
            /\ q.ctx # <<>> /\ q.ctx[1].user_id = 1
            /\ ParseUint(q.id).n = 2
            /\ Bob2 \in users
            /\ q.resp = Forbidden

\* C2: whenever ValidateToken returned an error to AuthMiddleware, the
\* request is aborted with Unauthorized, nothing is bound into its context
\* and the handler of its route never runs.
C2_HardGate ==
    \A w \in Workers :
        LET q == reqs[w]
        IN  q.guarded /\ q.mw # <<>> /\ q.mw[1].err # {} =>
                /\ q.pc = "done"
                /\ q.resp = JSON(401, "invalid token")
                /\ q.ctx = <<>>
                /\ q.ran = <<"AuthMiddleware">>
                /\ q.reads = {} /\ q.writes = {}

\* the middleware has turned away an expired token and, on the other
\* worker, a token that is empty once the Bearer prefix is stripped
C2_Witness ==
    \E w, v \in Workers :
        /\ reqs[w].guarded /\ reqs[w].pc = "done"
        /\ reqs[w].mw # <<>> /\ "ErrTokenExpired" \in reqs[w].mw[1].err
        /\ reqs[v].guarded /\ reqs[v].pc = "done"
        /\ reqs[v].header = Bearer(<<>>)
        /\ reqs[v].mw # <<>> /\ reqs[v].mw[1].err = {"empty token"}

\* C3: a request to a protected route with no (or an empty) Authorization
\* header is answered Unauthorized 'no token provided' without ValidateToken
\* being called, and the handler of its route never runs.
C3_NoTokenProvided ==
    \A w \in Workers :
        LET q == reqs[w]
        IN  q.guarded /\ q.pc # "idle" /\ q.header = <<>> =>
                /\ q.pc = "done"
                /\ q.resp = JSON(401, "no token provided")
                /\ q.mw = <<>>
                /\ q.calls = <<>>
                /\ q.ran = <<"AuthMiddleware">>

\* a protected request without a header has been answered
C3_Witness ==
    \E w \in Workers :
        /\ reqs[w].guarded /\ reqs[w].header = <<>> /\ reqs[w].pc = "done"
        /\ reqs[w].route = "UpdateByID"
        /\ reqs[w].resp.status = 401

\* C4: whenever a handler runs behind AuthMiddleware, the user_id and
\* username in that request's context are the UserID and Username claims
\* of the token in that request's own header, which ValidateToken accepted,
\* whatever the other requests in flight carry.
C4_OwnIdentity ==
    \A w \in Workers :
        LET q == reqs[w]
            token == TrimPrefix(q.header)
        IN  q.guarded /\ (q.pc \in {"handler", "lock"} \/ Handled(q)) =>
                /\ q.mw # <<>> /\ q.mw[1].err = {}
                /\ Len(token) = 1
                /\ q.mw[1].claims = <<token[1].claims>>
                /\ q.ctx = << [user_id |-> token[1].claims.UserID,
                               username |-> token[1].claims.Username] >>
                /\ GetAuthenticatedUserID(q.ctx) =
                      [id |-> token[1].claims.UserID, exists |-> TRUE]

\* two requests are past the middleware at once, one with the token of
\* user 1 and one with the token of user 2
C4_Witness ==
    \E w, v \in Workers :
        /\ reqs[w].guarded /\ reqs[w].pc = "handler"
        /\ reqs[v].guarded /\ reqs[v].pc = "handler"
        /\ reqs[w].header = Bearer(TokAli) /\ reqs[w].ctx[1].user_id = 1
        /\ reqs[v].header = Bearer(TokBob) /\ reqs[v].ctx[1].user_id = 2

----------------------------------------------------------------------------
(* Properties of login, under Spec (requests) and SpecService (calls).     *)

\* worker w's Login request is answered in this step, after AuthService.Login
\* was called with the trimmed fields of its body
LoginAnswered(w) ==
    /\ reqs[w].pc # "done"
    /\ reqs'[w].pc = "done"
    /\ reqs'[w].route = "Login"
    /\ reqs'[w].ret # <<>>

\* no row of the users table has this username
UnknownUsername(username) ==
    \A u \in users : u.UsernameForLogin # username

\* a row has this username, and its hash is not the hash of this password
WrongPassword(username, password) ==
    \E u \in users : /\ u.UsernameForLogin = username
                     /\ ~CheckPassword(u, password)

\* C5: a login attempt with a username that does not exist and one with an
\* existing username and a wrong password get the same InvalidCredentials
\* error from AuthService.Login, with nothing else returned, and the same
\* response (401 'invalid credentials') from the Login handler.
C5_SameRejection ==
    [][ \A w \in Workers :
          LET q == reqs'[w]
              username == TrimSpace(q.body.username)
              password == TrimSpace(q.body.password)
          IN  /\ LoginAnswered(w)
              /\ username # <<>> /\ password # <<>>
              /\ UnknownUsername(username) \/ WrongPassword(username, password)
              => /\ q.ret[1].err = ErrInvalidCredentials
                 /\ q.ret[1].user = <<>>
                 /\ q.ret[1].token = <<>>
                 /\ q.ret[1].inc = << <<"login", "failed">> >>
                 /\ q.resp = JSON(401, "invalid credentials") ]_vars

\* with users registered, one attempt with an unknown username and one with
\* a wrong password have both been answered, alike
C5_Witness ==
    \E w, v \in Workers :
        /\ users # {}
        /\ reqs[w].pc = "done" /\ reqs[w].route = "Login"
        /\ reqs[w].calls = <<"Login", "GetByUsername">>
        /\ reqs[v].pc = "done" /\ reqs[v].route = "Login"
        /\ reqs[v].calls = <<"Login", "GetByUsername", "CompareHashAndPassword">>
        /\ reqs[v].ret[1].err = ErrInvalidCredentials
        /\ reqs[w].resp = reqs[v].resp

\* C6: AuthService.Login called with an empty username or an empty password
\* returns the error for missing fields, which is not the InvalidCredentials
\* error, and reaches neither the user lookup nor the password comparison
\* nor GenerateToken.
C6_EmptyFieldsRejected ==
    last.op = "Login" /\ (last.arg.username = <<>> \/ last.arg.password = <<>>)
        => /\ last.out.err = ErrRequired
           /\ last.out.err # ErrInvalidCredentials
           /\ last.out.calls = <<>>
           /\ last.out.user = <<>>
           /\ last.out.token = <<>>
           /\ last.out.inc = << <<"login", "failed">> >>

\* Login was called with the username of a registered user and an empty
\* password
C6_Witness ==
    /\ last.op = "Login"
    /\ last.arg.password = <<>>
    /\ \E u \in users : u.UsernameForLogin = last.arg.username
    /\ last.out.err = ErrRequired

\* worker w holds an answered Login request whose call of AuthService.Login
\* succeeded
LoggedIn(w) ==
    /\ Handled(reqs[w])
    /\ reqs[w].route = "Login"
    /\ reqs[w].ret # <<>>
    /\ reqs[w].ret[1].err = ""

\* C7 as stated: on a successful login, Login returns a token and the
\* identity of the user looked up, with the password field cleared; here
\* for what AuthService.Login returns.
C7_ServiceClearsPassword ==
    \A w \in Workers :
        LoggedIn(w) =>
            LET out == reqs[w].ret[1]
            IN  /\ out.token # <<>>
                /\ out.user[1].UsernameForLogin = TrimSpace(reqs[w].body.username)
                /\ out.user[1].Password = NoPassword

\* C7 amended: on a successful login AuthService.Login returns a token and
\* the stored row of the user looked up, hash included; the Login handler
\* clears the password field, so that the identity in the response has the
\* username looked up and an empty password, never the stored hash.
C7_HandlerClearsPassword ==
    \A w \in Workers :
        LoggedIn(w) =>
            LET out == reqs[w].ret[1]
                data == reqs[w].resp.data[1]
            IN  /\ reqs[w].resp.status = 200
                /\ out.token # <<>>
                /\ data.token = out.token
                /\ out.user[1].Password.bcrypt
                /\ out.user[1].UsernameForLogin = TrimSpace(reqs[w].body.username)
                /\ data.user.ID = out.user[1].ID
                /\ data.user.UsernameForLogin = TrimSpace(reqs[w].body.username)
                /\ data.user.Password = NoPassword
                /\ \A u \in users : data.user.Password # u.Password

\* a registered user has logged in with a padded username
C7_Witness ==
    \E w \in Workers :
        /\ LoggedIn(w)
        /\ reqs[w].body.username = UBobPadded
        /\ reqs[w].resp.status = 200
        /\ reqs[w].ret[1].user[1].Password.bcrypt

----------------------------------------------------------------------------
(* Properties of the token codec, under SpecService.                       *)

\* the service was built from the two halves of one key pair
MatchingKeys == svc # <<>> /\ svc[1].privateKey.pair = svc[1].publicKey.pair

\* the last call was ValidateToken on the token of record i of issued
Revalidated(i) ==
    /\ last.op = "ValidateToken"
    /\ i \in issued
    /\ last.arg = i.token

\* a clock reading rounded down to whole seconds
WholeSeconds(t) == (t \div TicksPerSecond) * TicksPerSecond

\* what ValidateToken returns for a token it accepts as issued to record i
Accepted(i) ==
    /\ last.out.err = {}
    /\ Len(last.out.claims) = 1
    /\ last.out.claims[1].UserID = i.UserID
    /\ last.out.claims[1].Username = i.Username

\* C8 as stated: with a valid key pair, ValidateToken applied to a token
\* GenerateToken returned succeeds at any time before the configured
\* expiry has elapsed, with the user's id and username in the claims.
C8_UntilExpiryElapses ==
    \A i \in issued :
        /\ MatchingKeys
        /\ Revalidated(i)
        /\ last.at < i.at + svc[1].tokenExpiry
        => Accepted(i)

\* C8 amended: ... succeeds at any time before the token's expires_at,
\* which is the time of issue plus the configured expiry rounded down to
\* whole seconds, with the user's id and username in the claims.
C8_UntilExpiresAt ==
    \A i \in issued :
        /\ MatchingKeys
        /\ Revalidated(i)
        /\ last.at < WholeSeconds(i.at + svc[1].tokenExpiry)
        => Accepted(i)

\* a token was validated and accepted at a later clock reading than the
\* one it was issued at
C8_Witness ==
    \E i \in issued :
        /\ MatchingKeys
        /\ Revalidated(i)
        /\ last.at > i.at
        /\ i.UserID # 0
        /\ Accepted(i)

\* the last call issued a token: GenerateToken, or Login through it
Issuing == last.op \in {"GenerateToken", "Login"} /\ last.out.err = ""

\* C9 as stated: every token GenerateToken issues has issued_at =
\* not_before = the time of issue, expires_at = time of issue + TokenExpiry,
\* and expires_at > issued_at, whatever TokenExpiry NewAuthService accepted.
C9_ExactTimes ==
    Issuing =>
        LET c == last.out.token[1].claims
        IN  /\ c.IssuedAt = last.at
            /\ c.NotBefore = last.at
            /\ c.ExpiresAt = last.at + svc[1].tokenExpiry
            /\ c.ExpiresAt > c.IssuedAt

\* C9 amended: every token GenerateToken issues has issued_at = not_before
\* = the time of issue in whole seconds and expires_at = (time of issue +
\* TokenExpiry) in whole seconds; expires_at > issued_at holds when
\* TokenExpiry is a second or more, and NewAuthService accepts any
\* TokenExpiry, shorter, zero and negative ones included.
C9_WholeSecondTimes ==
    Issuing =>
        LET c == last.out.token[1].claims
            d == svc[1].tokenExpiry
        IN  /\ c.IssuedAt = WholeSeconds(last.at)
            /\ c.NotBefore = WholeSeconds(last.at)
            /\ c.ExpiresAt = WholeSeconds(last.at + d)
            /\ d >= TicksPerSecond => c.ExpiresAt > c.IssuedAt
            /\ d <= 0 => c.ExpiresAt <= c.IssuedAt

\* a token was issued part-way through a second by a service whose
\* TokenExpiry is one second
C9_Witness ==
    /\ Issuing
    /\ svc[1].tokenExpiry = TicksPerSecond
    /\ last.at % TicksPerSecond # 0
    /\ last.out.token[1].claims.ExpiresAt > last.out.token[1].claims.IssuedAt

\* the token string is one compact token signed by an RSA key under the
\* algorithm its header names
SignedRSA(tokenStr) ==
    /\ Len(tokenStr) = 1
    /\ tokenStr[1].kind = "jwt"
    /\ tokenStr[1].alg \in RSAFamily
    /\ tokenStr[1].sig.alg = tokenStr[1].alg

Kinds ==
    {"ErrTokenExpired", "ErrTokenSignatureInvalid", "ErrTokenNotValidYet",
     "ErrTokenMalformed"}

\* C10: ValidateToken returns no claims with an error, and the error tells
\* the cause: Expired for a token of the configured key pair whose
\* expires_at is past, InvalidSignature for a token signed with another
\* pair's private key, NotYetValid for a token used before its not_before,
\* Malformed for a string that is no token; no cause is reported as another.
C10_DistinctKinds ==
    last.op = "ValidateToken" =>
        LET out == last.out
            tokenStr == last.arg
            own == tokenStr[1].sig.key = svc[1].publicKey.pair
            c == tokenStr[1].claims
            expired == last.at >= c.ExpiresAt
            early == last.at < c.NotBefore
        IN  /\ out.err # {} => out.claims = <<>>
            /\ tokenStr # <<>> /\ (Len(tokenStr) # 1 \/ tokenStr[1].kind # "jwt")
                  => out.err \cap Kinds = {"ErrTokenMalformed"}
            /\ SignedRSA(tokenStr) /\ ~own
                  => out.err \cap Kinds = {"ErrTokenSignatureInvalid"}
            /\ SignedRSA(tokenStr) /\ own /\ expired /\ ~early
                  => out.err \cap Kinds = {"ErrTokenExpired"}
            /\ SignedRSA(tokenStr) /\ own /\ early /\ ~expired
                  => out.err \cap Kinds = {"ErrTokenNotValidYet"}
            /\ SignedRSA(tokenStr) /\ own /\ early /\ expired
                  => out.err \cap Kinds = {"ErrTokenExpired", "ErrTokenNotValidYet"}
            /\ SignedRSA(tokenStr) /\ own /\ ~early /\ ~expired
                  => out.err = {} /\ out.claims = <<c>>

\* a token this service issued under a TokenExpiry of -1s was validated
\* and rejected as expired
C10_Witness ==
    /\ last.op = "ValidateToken"
    /\ svc[1].tokenExpiry = -TicksPerSecond
    /\ \E i \in issued : last.arg = i.token
    /\ "ErrTokenExpired" \in last.out.err
    /\ last.out.claims = <<>>

----------------------------------------------------------------------------
(* Properties of the signing method test and of the collapsed responses.   *)

\* the last call was ValidateToken on one compact token
ValidatedToken ==
    /\ last.op = "ValidateToken"
    /\ Len(last.arg) = 1
    /\ last.arg[1].kind = "jwt"

\* C11: ValidateToken rejects every token whose header names a signing
\* algorithm outside the RSA family, whatever signature it carries and
\* whatever key made it, and the Keyfunc hands no key to the verifier for it.
C11_OnlyRSA ==
    ValidatedToken /\ last.arg[1].alg \notin RSAFamily =>
        /\ last.out.err # {}
        /\ "invalid token" \in last.out.err
        /\ "ErrTokenUnverifiable" \in last.out.err
        /\ last.out.claims = <<>>
        /\ last.out.keys = {}
        /\ last.out.inc = << <<"validate_token", "failed">> >>

\* a token that names HS256, carries an HS256 signature made with the
\* configured public key as the secret, and whose claims are current, was
\* validated and rejected
C11_Witness ==
    /\ ValidatedToken
    /\ last.arg[1].alg = "HS256"
    /\ last.arg[1].sig = [alg |-> "HS256", key |-> svc[1].publicKey.pair]
    /\ last.arg[1].claims.NotBefore <= last.at
    /\ last.at < last.arg[1].claims.ExpiresAt
    /\ last.out.err # {}
    /\ last.out.keys = {}

\* request q presented a token that ValidateToken rejected, at the
\* ValidateToken endpoint or in AuthMiddleware
Rejected(q) ==
    \/ /\ q.route = "ValidateToken" /\ q.pc = "done"
       /\ q.ret # <<>> /\ q.ret[1].err # {}
    \/ /\ q.guarded
       /\ q.mw # <<>> /\ q.mw[1].err # {}

\* the error ValidateToken returned for request q
Cause(q) == IF q.guarded THEN q.mw[1].err ELSE q.ret[1].err

\* C12: any two requests whose tokens ValidateToken rejected, for whatever
\* causes and at either the ValidateToken endpoint or AuthMiddleware, get
\* the same response, Unauthorized 'invalid token' with no data.
C12_OneRejection ==
    \A w, v \in Workers :
        Rejected(reqs[w]) /\ Rejected(reqs[v]) =>
            /\ reqs[w].resp = reqs[v].resp
            /\ reqs[w].resp = [status |-> 401, error |-> "invalid token",
                               data |-> <<>>]

\* an expired token was rejected at the endpoint and a malformed one in the
\* middleware
C12_Witness ==
    \E w, v \in Workers :
        /\ Rejected(reqs[w]) /\ ~reqs[w].guarded
        /\ "ErrTokenExpired" \in Cause(reqs[w])
        /\ Rejected(reqs[v]) /\ reqs[v].guarded
        /\ "ErrTokenMalformed" \in Cause(reqs[v])
        /\ reqs[w].resp = reqs[v].resp

----------------------------------------------------------------------------
(* Properties of startup and of the keys.                                  *)

\* the key files main configured both hold a key of their kind
BothKeyFilesGood ==
    /\ last.op = "NewAuthService"
    /\ last.arg.private.kind = "private"
    /\ last.arg.public.kind = "public"

\* C13: if loading either key fails, NewAuthService returns an error and no
\* service and the process ends before it serves a request; whenever a
\* request is being handled, both keys have been loaded.
C13_NeverPartiallyKeyed ==
    /\ last.op = "NewAuthService" /\ ~BothKeyFilesGood =>
          /\ last.out.err # ""
          /\ last.out.svc = <<>>
          /\ svc = <<>>
          /\ nreq = 0
          /\ \A w \in Workers : reqs[w] = IdleReq
    /\ (nreq > 0 \/ \E w \in Workers : reqs[w].pc # "idle") =>
          /\ BothKeyFilesGood
          /\ Len(svc) = 1
          /\ svc[1].privateKey.pair = last.arg.private.pair
          /\ svc[1].publicKey.pair = last.arg.public.pair

\* the private key loaded, the public key file did not parse, and time
\* passes without a request being served
C13_Witness ==
    /\ last.op = "NewAuthService"
    /\ last.arg.private.kind = "private"
    /\ last.arg.public.kind = "garbage"
    /\ last.out.err = "failed to load public key"
    /\ svc = <<>>
    /\ now > StartTime

\* C14: once NewAuthService has succeeded, the private key and the public
\* key the service holds are the two halves of one key pair; from key files
\* of different pairs no service is constructed.
C14_KeysOfOnePair ==
    svc # <<>> =>
        /\ svc[1].privateKey.pair = svc[1].publicKey.pair
        /\ last.op = "NewAuthService" =>
              last.arg.private.pair = last.arg.public.pair

----------------------------------------------------------------------------
(* Properties of calls in time: contexts, token lifetime, frames.          *)

\* the errors of a context that was cancelled or ran out of time
CancelledKinds == {"context canceled", "context deadline exceeded"}

\* C15: a Login whose context's deadline passed while the user lookup was
\* pending returns an error of the Cancelled/Timeout kind, which is neither
\* InvalidCredentials nor a success.
C15_LoginHonoursDeadline ==
    /\ last.op = "Login"
    /\ last.arg.username # <<>> /\ last.arg.password # <<>>
    /\ last.at > last.arg.deadline
    => /\ last.out.err \in CancelledKinds
       /\ last.out.err # ErrInvalidCredentials
       /\ last.out.token = <<>>

\* C16 as stated, for a service whose keys are a pair: a token issued at t0
\* with expiry d is accepted at every time in [t0, t0 + d] and rejected at
\* every later time, whatever calls were made in between.
C16_GoodThroughExpiry ==
    \A i \in issued :
        MatchingKeys /\ Revalidated(i) =>
            LET d == svc[1].tokenExpiry
            IN  /\ last.at >= i.at /\ last.at <= i.at + d => Accepted(i)
                /\ last.at > i.at + d => last.out.err # {}

\* C16 amended, for a service whose keys are a pair: a token issued at t0
\* with expiry d is accepted at every time from t0 up to but not including
\* its expires_at, which is t0 + d rounded down to whole seconds, and
\* rejected, as expired, at expires_at and at every later time, whatever
\* logins, validations, user updates or user deletions were made in between.
C16_GoodUntilExpiresAt ==
    \A i \in issued :
        MatchingKeys /\ Revalidated(i) =>
            LET exp == WholeSeconds(i.at + svc[1].tokenExpiry)
            IN  /\ last.at >= i.at
                /\ last.at < exp => Accepted(i)
                /\ last.at >= exp => /\ "ErrTokenExpired" \in last.out.err
                                     /\ last.out.claims = <<>>

\* a token was issued to a user, the user was deleted, and at the instant
\* of its expires_at, later than its issue, the token was rejected as expired
C16_Witness ==
    \E i \in issued :
        /\ MatchingKeys
        /\ Revalidated(i)
        /\ \A u \in users : u.ID # i.UserID
        /\ last.at > i.at
        /\ last.at = WholeSeconds(i.at + svc[1].tokenExpiry)
        /\ "ErrTokenExpired" \in last.out.err

\* the password has no zero byte and is no longer than what bcrypt reads
Ordinary(pw) ==
    /\ Len(pw) <= KeyBytes
    /\ \A i \in 1..Len(pw) : pw[i] # NUL

\* HashPassword has succeeded: the Password field holds a hash
Hashed ==
    last.op = "HashPassword" /\ last.out.err = "" =>
        /\ last.out.user.Password.bcrypt
        /\ last.out.user.Password # Plain(last.arg.password)

\* C17 as stated: CheckPassword(p) on a user whose hash HashPassword made
\* from p succeeds, CheckPassword(p1) on a hash made from p2 with p1 # p2
\* fails, and HashPassword leaves no plaintext in the Password field.
C17_VerifiesExactlyThePassword ==
    /\ Hashed
    /\ last.op = "CheckPassword" =>
          (last.out.ok <=> last.arg.password = last.arg.hashed)

\* C17 amended: CheckPassword(p) on a user whose hash HashPassword made from
\* p succeeds, CheckPassword(p1) on a hash made from p2 with p1 # p2 fails
\* when p1 and p2 are at most 72 bytes long and contain no zero byte, and
\* HashPassword leaves no plaintext in the Password field on success.
C17_VerifiesOrdinaryPasswords ==
    /\ Hashed
    /\ last.op = "CheckPassword" =>
          /\ last.arg.password = last.arg.hashed => last.out.ok
          /\ ( /\ last.arg.password # last.arg.hashed
               /\ Ordinary(last.arg.password)
               /\ Ordinary(last.arg.hashed) ) => ~last.out.ok

\* a password of 72 bytes was hashed and the attempt with its first 71
\* bytes was turned down
C17_Witness ==
    /\ last.op = "CheckPassword"
    /\ last.arg.hashed = Rep("q", KeyBytes)
    /\ last.arg.password = Rep("q", KeyBytes - 1)
    /\ last.arg.user.Password.bcrypt
    /\ ~last.out.ok

----------------------------------------------------------------------------
(* Frame properties: what the calls leave alone.                           *)

\* the calls of the auth core
AuthCore == {"GetByUsername", "Login", "GenerateToken", "ValidateToken",
             "AuthMiddleware"}

\* C18: the auth core is read-only: a call of AuthService.Login,
\* GenerateToken or ValidateToken or of AuthMiddleware, whether it succeeds
\* or fails, leaves the user store and the service's private key, public
\* key and token expiry as they were.
C18_AuthCoreReadOnly ==
    [][ (last' # last /\ last'.op \in AuthCore) =>
            /\ users' = users
            /\ svc' = svc ]_vars

\* a login has returned a token for a user whose row is in the store
C18_Witness ==
    /\ last.op = "Login"
    /\ last.out.err = ""
    /\ last.out.user[1] \in users

----------------------------------------------------------------------------
(* The operation counters.                                                 *)

\* the statuses with which a call incremented the counter of operation
Counted(inc, operation) ==
    SelectSeq(inc, LAMBDA e : e[1] = operation)

\* C19: each call of AuthService.Login that returns increments the 'login'
\* operation counter exactly once, with status 'success' if and only if it
\* returned a token and with status 'failed' otherwise (empty input, unknown
\* user, wrong password or signing failure).
C19_LoginCountedOnce ==
    last.op = "Login" =>
        LET logins == Counted(last.out.inc, "login")
        IN  /\ Len(logins) = 1
            /\ logins[1][2] \in {"success", "failed"}
            /\ logins[1][2] = "success" <=> last.out.token # <<>>
            /\ logins[1][2] = "success" <=> last.out.err = ""

\* a login with the right password has failed at the signing of the token
\* and has been counted as failed
C19_Witness ==
    /\ last.op = "Login"
    /\ last.out.err = ErrGenerate
    /\ last.out.token = <<>>
    /\ Counted(last.out.inc, "login") = << <<"login", "failed">> >>

\* C20: a user's stored password hash is created at registration and never
\* changed afterwards: no Login, ValidateToken, GetByID or UpdateByID
\* request, nor any other step of the server, changes the Password column
\* of a row of the users table, and every row holds a hash (the password
\* cleared on a response object is not saved).
C20_HashNeverChanged ==
    [][ /\ \A u \in users : \A v \in users' :
              v.ID = u.ID => v.Password = u.Password
        /\ \A v \in users' : v.Password.bcrypt ]_vars

\* an UpdateByID request has changed a row and answered with the user
\* without the password, and the row still holds a hash
C20_Witness ==
    \E w \in Workers :
        /\ reqs[w].route = "UpdateByID"
        /\ reqs[w].resp.status = 200
        /\ reqs[w].writes # {}
        /\ reqs[w].resp.data[1].Password = NoPassword
        /\ \E u \in users :
              /\ u.ID \in reqs[w].writes
              /\ u.Name = reqs[w].resp.data[1].Name
              /\ u \notin {Ali1, Bob2}
              /\ u.Password.bcrypt

----------------------------------------------------------------------------
(* Properties of the subscription routes, under SpecSubscription.          *)

SubRoutes == {"Create", "GetUserSubscriptions", "UpdateUserSubscription"}

\* the subject AuthMiddleware would bind for the request's Authorization
\* header at clock reading t, 0 when it would abort
CallerSubject(q, t) ==
    LET m == AuthMiddleware(svc[1], q, t)
    IN  IF m.abort THEN 0 ELSE m.ctx[1].user_id

\* C21: a subscription handler that looked up or stored subscriptions of
\* the user in the path was called by that user: the subject of the
\* caller's token is the path's userId.
C21_OnlyOwnSubscriptions ==
    /\ last.op \in SubRoutes
    /\ last.out.reads \cup last.out.writes # {}
    => CallerSubject(last.arg, last.at) = ParseUint(last.arg.userId).n


\* C23: every stored subscription ends after it starts.
C23_EndAfterStart ==
    \A r \in subs : r.EndDate > r.StartDate


\* C24: an accepted UpdateUserSubscription leaves every field the body
\* omits as it was stored, and never changes id, user_id, subscription_id
\* or created_at.  The bodies sent carry is_active only as true, so a false
\* IsActive in the bound struct is an omitted is_active.
C24_OmittedFieldsKept ==
    /\ last.op = "UpdateUserSubscription"
    /\ last.out.resp.status = 200
    => \A b \in last.before : \A a \in {r \in subs : r.ID = b.ID} :
          LET body == last.arg.body
          IN  /\ body.Type = "" => a.Type = b.Type
              /\ body.CompanyName = "" => a.CompanyName = b.CompanyName
              /\ body.Role = "" => a.Role = b.Role
              /\ body.StartDate = <<>> => a.StartDate = b.StartDate
              /\ body.EndDate = <<>> => a.EndDate = b.EndDate
              /\ ~body.IsActive => a.IsActive = b.IsActive
              /\ a.UserID = b.UserID
              /\ a.SubscriptionID = b.SubscriptionID
              /\ a.CreatedAt = b.CreatedAt


\* C28: for every user and subscription at most one stored subscription
\* has its end date in the future.
C28_OneActivePerPair ==
    \A r, s \in subs :
        /\ r.UserID = s.UserID
        /\ r.SubscriptionID = s.SubscriptionID
        /\ r.EndDate > now
        /\ s.EndDate > now
        => r = s


\* the start and end date UpdateUserSubscription would store for row b
ResultingStart(b, body) ==
    IF body.StartDate # <<>> THEN body.StartDate[1] ELSE b.StartDate
ResultingEnd(b, body) ==
    IF body.EndDate # <<>> THEN body.EndDate[1] ELSE b.EndDate

\* the answers UpdateUserSubscription gives before it looks at the dates
EarlierRejections ==
    { JSON(429, "Rate limit exceeded"), JSON(400, "Invalid user ID"),
      JSON(400, "Invalid subscription ID"),
      JSON(404, "User subscription not found"),
      JSON(403, "Subscription does not belong to specified user"),
      JSON(400, "Invalid request body"),
      JSON(400, "Invalid subscription type") }

\* the last request answered was an UpdateUserSubscription that had read
\* the row b; last.stored is the row of that key as it was stored when the
\* handler took its last step
UpdateOf(b) ==
    /\ last.op = "UpdateUserSubscription"
    /\ b \in last.before

C30_NotFoundIdentifiable ==
    /\ last.op = "CancelSubscription"
    /\ \A r \in last.before : ~r.IsActive
    => /\ ErrorsIs(last.out.err, "ErrNotFound")
       /\ {r \in subs : r.ID = last.arg} = last.before

----------------------------------------------------------------------------
(* The rate limiters under a steady client: the specification SpecLimiter. *)
(* One client sends requests to one rate-limited route, never faster than  *)
(* at the rate the constructor's comment names for that route's limiter:   *)
(* its k-th request (k = 0, 1, ...) is sent k / rate seconds after the     *)
(* first, at the first clock reading not before that.  nreq counts the     *)
(* requests sent, last keeps the route and the latest answer.              *)

\* "// 10 login attempts per second" (NewAuthHandler) and
\* "// 100 requests per second" (NewUserSubscriptionHandler)
LoginPerSecond == 10
SubscriptionPerSecond == 100

\* the seconds the client is followed for
LimiterSeconds == 2

\* the client's next request is due at a steady rate of perSecond
Due(perSecond) == nreq * TicksPerSecond <= (now - StartTime) * perSecond

InitLimiter ==
    /\ now = StartTime
    /\ svc = NewAuthService(PrivateFile("kA", FALSE), PublicFile("kA"),
                            MainTokenExpiry).svc
    /\ users = {Ali1, Bob2}
    /\ nextID = 3
    /\ issued = {}
    /\ last \in {[op |-> route, arg |-> <<>>, at |-> now, out |-> <<>>] :
                    route \in {"Login", "UpdateUserSubscription"}}
    /\ reqs = [w \in Workers |-> IdleReq]
    /\ nreq = 0
    /\ limiter = [login |-> Full(LoginBurst), user |-> Full(UserBurst),
                  subscription |-> Full(SubscriptionBurst)]
    /\ subs = {}
    /\ nextSubID = 1
    /\ mu = <<>>
    /\ proc = Serving

\* the clock advances once the client has sent every request due by now
LimTick ==
    /\ now < StartTime + LimiterSeconds * TicksPerSecond
    /\ ~Due(IF last.op = "Login" THEN LoginPerSecond
            ELSE SubscriptionPerSecond)
    /\ now' = now + 1
    /\ limiter' = [login |-> Refill(limiter.login, LoginBurst),
                    user |-> Refill(limiter.user, UserBurst),
                    subscription |-> Refill(limiter.subscription,
                                            SubscriptionBurst)]
    /\ UNCHANGED <<subs, nextSubID, mu, proc, svc, users, nextID, issued,
                   last, reqs, nreq>>

\* POST /auth/login with the credentials of user 1
LimLoginRequest == Arrived("Login", FALSE, <<>>, <<>>, LoginBody(UAli, PwP))

\* the client's login arrives: the limiter answers it, or it goes on to
\* the query of the users table; proc.inflight counts the requests that
\* are past the limiter and not yet answered
LimLogin ==
    /\ last.op = "Login"
    /\ Due(LoginPerSecond)
    /\ LET early == HandleLogin(svc[1], users, LimLoginRequest, now,
                                limiter.login)
       IN  IF early.resp.status = 429
           THEN /\ last' = [op |-> "Login", arg |-> LimLoginRequest,
                            at |-> now,
                            out |-> <<[resp |-> early.resp,
                                       calls |-> early.calls]>>]
                /\ proc' = proc
           ELSE /\ last' = last
                /\ proc' = [proc EXCEPT !.inflight = @ + 1]
    /\ limiter' = [limiter EXCEPT !.login = Take(limiter.login)]
    /\ nreq' = nreq + 1
    /\ UNCHANGED <<subs, nextSubID, mu, now, svc, users, nextID, issued, reqs>>

\* the database answers the query of one login past the limiter, and
\* Login runs to its return
LimLoginReturn ==
    /\ last.op = "Login"
    /\ proc.inflight > 0
    /\ LET out == HandleLogin(svc[1], users, LimLoginRequest, now, Admitted)
       IN  last' = [op |-> "Login", arg |-> LimLoginRequest, at |-> now,
                    out |-> <<[resp |-> out.resp, calls |-> out.calls]>>]
    /\ proc' = [proc EXCEPT !.inflight = @ - 1]
    /\ UNCHANGED <<subs, nextSubID, mu, now, svc, users, nextID, issued, reqs,
                   nreq, limiter>>

\* PATCH /user/1/subscription/1 with an empty JSON object
LimSubscriptionRequest ==
    SubRequest("UpdateUserSubscription", <<>>, <<"1">>, <<"1">>, NoSubBody)

\* the client's request arrives: the limiter answers it, or it goes on to
\* h.mu.Lock()
LimSubscription ==
    /\ last.op = "UpdateUserSubscription"
    /\ Due(SubscriptionPerSecond)
    /\ LET early == SubBeforeLock(LimSubscriptionRequest,
                                  limiter.subscription)
       IN  IF early # <<>>
           THEN /\ last' = [op |-> "UpdateUserSubscription",
                            arg |-> LimSubscriptionRequest, at |-> now,
                            out |-> <<[resp |-> early[1].resp,
                                       calls |-> early[1].calls]>>]
                /\ proc' = proc
           ELSE /\ last' = last
                /\ proc' = [proc EXCEPT !.inflight = @ + 1]
    /\ limiter' = [limiter EXCEPT !.subscription = Take(limiter.subscription)]
    /\ nreq' = nreq + 1
    /\ UNCHANGED <<subs, nextSubID, mu, now, svc, users, nextID, issued, reqs>>

\* one request past the limiter takes h.mu and runs to its return; no
\* other writer of the table runs here
LimSubscriptionReturn ==
    /\ last.op = "UpdateUserSubscription"
    /\ proc.inflight > 0
    /\ LET out == HandleUpdateUserSubscription(subs, subs,
                                               LimSubscriptionRequest,
                                               Admitted, now, now)
       IN  /\ subs' = out.store
           /\ last' = [op |-> "UpdateUserSubscription",
                       arg |-> LimSubscriptionRequest, at |-> now,
                       out |-> <<[resp |-> out.resp, calls |-> out.calls]>>]
    /\ proc' = [proc EXCEPT !.inflight = @ - 1]
    /\ UNCHANGED <<nextSubID, mu, now, svc, users, nextID, issued, reqs, nreq,
                   limiter>>

NextLimiter ==
    \/ LimTick
    \/ LimLogin
    \/ LimLoginReturn
    \/ LimSubscription
    \/ LimSubscriptionReturn

SpecLimiter == InitLimiter /\ [][NextLimiter]_vars

\* C22: a client that sends logins steadily at 10 per second, or
\* subscription requests steadily at 100 per second, is never answered 429.
C22_SteadyClientAdmitted ==
    last.out # <<>> => last.out[1].resp.status # 429

----------------------------------------------------------------------------
(* main (unnamed/part_002): start, signal and shutdown; the specification  *)
(* SpecMain.  proc.pc is where main stands: serving (blocked on <-quit),   *)
(* shutdown (inside srv.Shutdown), closing (before sqlDB.Close), exited    *)
(* (the process has ended after a signal) or failed (it ended because the  *)
(* listener could not start); proc.waited is the time since the shutdown   *)
(* context was made, proc.exit the exit code once the process has ended.   *)

\* context.WithTimeout(context.Background(), 30*time.Second)
ShutdownTimeout == 30 * TicksPerSecond

\* the most requests in flight at once
MaxInflight == 2

InitMain ==
    /\ now = StartTime
    /\ svc = NewAuthService(PrivateFile("kA", FALSE), PublicFile("kA"),
                            MainTokenExpiry).svc
    /\ users = {Ali1, Bob2}
    /\ nextID = 3
    /\ issued = {}
    /\ last = [op |-> "", arg |-> <<>>, at |-> now, out |-> <<>>]
    /\ reqs = [w \in Workers |-> IdleReq]
    /\ nreq = 0
    /\ limiter = [login |-> Full(LoginBurst), user |-> Full(UserBurst),
                  subscription |-> Full(SubscriptionBurst)]
    /\ subs = {}
    /\ nextSubID = 1
    /\ mu = <<>>
    /\ proc = [Serving EXCEPT !.server = "starting"]

MainUnchanged ==
    UNCHANGED <<now, svc, users, nextID, issued, last, reqs, nreq, limiter,
                subs, nextSubID, mu>>

\* srv.ListenAndServe has bound the port
MainListen ==
    /\ proc.exit = <<>>
    /\ proc.server = "starting"
    /\ proc' = [proc EXCEPT !.server = "listening"]
    /\ MainUnchanged

\* srv.ListenAndServe returns an error other than ErrServerClosed:
\* logger.Fatal ends the process
MainListenFail ==
    /\ proc.exit = <<>>
    /\ proc.server = "starting"
    /\ proc' = [proc EXCEPT !.pc = "failed", !.server = "closed",
                            !.exit = <<1>>]
    /\ MainUnchanged

\* a request arrives at the listening server
MainArrive ==
    /\ proc.exit = <<>>
    /\ proc.server = "listening"
    /\ proc.inflight < MaxInflight
    /\ proc' = [proc EXCEPT !.inflight = @ + 1]
    /\ MainUnchanged

\* a request in flight is answered
MainAnswer ==
    /\ proc.exit = <<>>
    /\ proc.inflight > 0
    /\ proc' = [proc EXCEPT !.inflight = @ - 1]
    /\ MainUnchanged

\* SIGINT or SIGTERM is delivered: main makes the shutdown context and
\* calls srv.Shutdown, which closes the listener at once
MainSignal ==
    /\ proc.pc = "serving"
    /\ proc' = [proc EXCEPT !.pc = "shutdown", !.server = "draining"]
    /\ MainUnchanged

\* a tick passes while srv.Shutdown waits for the requests in flight
MainWait ==
    /\ proc.pc = "shutdown"
    /\ proc.inflight > 0
    /\ proc.waited < ShutdownTimeout
    /\ proc' = [proc EXCEPT !.waited = @ + 1]
    /\ MainUnchanged

\* srv.Shutdown returns nil: no request is in flight any more
MainShutdownDone ==
    /\ proc.pc = "shutdown"
    /\ proc.inflight = 0
    /\ proc' = [proc EXCEPT !.pc = "closing", !.server = "closed"]
    /\ MainUnchanged

\* srv.Shutdown returns the context's error after 30 seconds with requests
\* still in flight: logger.Fatal("server forced to shutdown") ends the
\* process, the statements after it are not reached
MainShutdownTimeout ==
    /\ proc.pc = "shutdown"
    /\ proc.inflight > 0
    /\ proc.waited = ShutdownTimeout
    /\ proc' = [proc EXCEPT !.pc = "exited", !.exit = <<1>>]
    /\ MainUnchanged

\* sqlDB.Close(), then main returns
MainCloseDB ==
    /\ proc.pc = "closing"
    /\ proc' = [proc EXCEPT !.pc = "exited", !.db = "closed", !.exit = <<0>>]
    /\ MainUnchanged

NextMain ==
    \/ MainListen
    \/ MainListenFail
    \/ MainArrive
    \/ MainAnswer
    \/ MainSignal
    \/ MainWait
    \/ MainShutdownDone
    \/ MainShutdownTimeout
    \/ MainCloseDB

SpecMain == InitMain /\ [][NextMain]_vars

\* the clock runs and main's own statements are executed; when a signal
\* arrives and when a request is answered is up to the environment
FairMain ==
    /\ SpecMain
    /\ WF_vars(MainWait)
    /\ WF_vars(MainShutdownDone)
    /\ WF_vars(MainShutdownTimeout)
    /\ WF_vars(MainCloseDB)

\* once a signal has been delivered the process ends
MainEventuallyExits == (proc.pc = "shutdown") ~> (proc.exit # <<>>)

\* the database connection is open for as long as the server may serve
MainDatabaseOutlivesServer ==
    proc.db = "closed" => proc.server = "closed" /\ proc.pc = "exited"

\* C25: a process that has ended after SIGINT or SIGTERM has closed its
\* database connection.
C25_DatabaseClosedOnExit ==
    proc.pc = "exited" => proc.db = "closed"

----------------------------------------------------------------------------
(* Registration followed by login: the specification SpecRoundTrip.  One   *)
(* client registers through UserHandler.Create and then submits the very   *)
(* username and password of its registration to AuthHandler.Login.  last   *)
(* keeps the registration request, its answer and the answer of the login. *)

\* the usernames and passwords registered: all pass the validation of
\* CreateUserRequest and of LoginRequest
RtUsernames == {UAli, UAliCaps, UBob}
RtPasswords == {PwP, PwQ, PwPPadded, PwBlank, PwLong}

InitRoundTrip ==
    /\ now = StartTime
    /\ svc = NewAuthService(PrivateFile("kA", FALSE), PublicFile("kA"),
                            MainTokenExpiry).svc
    /\ users = {Bob2}
    /\ nextID = 3
    /\ issued = {}
    /\ last = [op |-> "", arg |-> <<>>, at |-> now, out |-> <<>>,
               login |-> <<>>]
    /\ reqs = [w \in Workers |-> IdleReq]
    /\ nreq = 0
    /\ limiter = [login |-> Full(LoginBurst), user |-> Full(UserBurst),
                  subscription |-> Full(SubscriptionBurst)]
    /\ subs = {}
    /\ nextSubID = 1
    /\ mu = <<>>
    /\ proc = Serving

\* the worker that serves the client's requests
RtWorker == "w1"

\* POST /user arrives: Create up to h.mu.Lock()
RtCreate ==
    /\ last.op = ""
    /\ \E username \in RtUsernames, password \in RtPasswords :
          LET q == Arrived("Create", FALSE, <<>>, <<>>,
                           CreateBody(NAl, username, EA, password))
              early == HandleCreate(users, q, limiter.user, "s1", nextID,
                                    FALSE)
          IN  /\ reqs' = [reqs EXCEPT ![RtWorker] =
                            IF AnsweredBeforeLock(early.resp)
                            THEN DoneStore(q, early)
                            ELSE [q EXCEPT !.pc = "lock"]]
              /\ last' = [op |-> "Create", arg |-> q, at |-> now,
                          out |-> <<>>, login |-> <<>>]
    /\ limiter' = [limiter EXCEPT !.user = Take(limiter.user)]
    /\ nreq' = nreq + 1
    /\ UNCHANGED <<subs, nextSubID, mu, proc, now, svc, users, nextID, issued>>

\* the registration was answered 201, and POST /auth/login arrives with
\* the username and password that were registered: Login up to the query
RtLogin ==
    /\ last.op = "Create"
    /\ reqs[RtWorker].pc = "done"
    /\ reqs[RtWorker].resp.status = 201
    /\ LET q == Arrived("Login", FALSE, <<>>, <<>>,
                        LoginBody(last.arg.body.username,
                                  last.arg.body.password))
           early == HandleLogin(svc[1], users, q, now, limiter.login)
       IN  /\ reqs' = [reqs EXCEPT ![RtWorker] =
                         IF \/ early.resp.status \in {429, 400}
                            \/ early.calls = <<"Login">>
                         THEN Done(q, early)
                         ELSE [q EXCEPT !.pc = "lookup"]]
           /\ last' = [last EXCEPT !.op = "Login", !.at = now,
                                   !.out = <<reqs[RtWorker].resp>>]
    /\ limiter' = [limiter EXCEPT !.login = Take(limiter.login)]
    /\ nreq' = nreq + 1
    /\ UNCHANGED <<subs, nextSubID, mu, proc, now, svc, users, nextID, issued>>

\* the login has been answered
RtAnswered ==
    /\ last.op = "Login"
    /\ reqs[RtWorker].pc = "done"
    /\ last.login # <<>>

\* the client reads the answer of its login
RtAnswer ==
    /\ last.op = "Login"
    /\ reqs[RtWorker].pc = "done"
    /\ last.login = <<>>
    /\ last' = [last EXCEPT !.login = <<reqs[RtWorker].resp>>, !.at = now]
    /\ UNCHANGED <<subs, nextSubID, mu, proc, now, svc, users, nextID, issued,
                   reqs, nreq, limiter>>

NextRoundTrip ==
    \/ Tick
    \/ RtCreate
    \/ CreateLocked(RtWorker)
    \/ RtLogin
    \/ LoginLookup(RtWorker)
    \/ LoginReturn(RtWorker)
    \/ RtAnswer

SpecRoundTrip == InitRoundTrip /\ [][NextRoundTrip]_vars

\* C26: the login with the username and password of an accepted
\* registration is answered 200 with a token whose subject is the user
\* registered.
C26_RegisteredCanLogin ==
    RtAnswered
    => /\ last.login[1].status = 200
       /\ LET v == ValidateToken(svc[1], last.login[1].data[1].token, last.at)
          IN  /\ v.err = {}
              /\ v.claims[1].UserID = last.out[1].data[1].ID

----------------------------------------------------------------------------
(* Concurrent UserHandler.Create and UserHandler.UpdateByID: the           *)
(* specification SpecConcurrent.  Each worker runs one handler step by     *)
(* step: the checks before h.mu.Lock(), the lock, the handler's look-ups   *)
(* under the lock, the repository's transaction, and the deferred          *)
(* h.mu.Unlock() at return.  reqs[w].pc is lock (waiting for the mutex),   *)
(* check, store, unlock (returning), done; reqs[w].ret holds the row       *)
(* UpdateByID read and changed and has yet to save.                        *)

ULab == <<"l", "a", "b">>
ULAb == <<"l", "A", "b">>
ULob == <<"l", "o", "b">>
EL == <<"l", "@", "x", ".", "i", "o">>
EO == <<"o", "@", "x", ".", "i", "o">>

\* the requests sent: two registrations whose usernames differ in case
\* only, one with the e-mail address of the first, one with a taken
\* username, one that fails validation; and changes of users 1 and 2 to
\* that same address, of user 1 to user 2's, and one by another user
CcRequests ==
    { Arrived("Create", FALSE, <<>>, <<>>, body) :
        body \in { CreateBody(NAl, ULab, EL, PwP),
                   CreateBody(NBo, ULAb, EO, PwQ),
                   CreateBody(NBo, ULob, EL, PwQ),
                   CreateBody(NAl, UAli, EO, PwP),
                   CreateBody(NAl, ULab, EL, PwShort) } }
    \cup
    { [Arrived("UpdateByID", TRUE, <<>>, id, [NoBody EXCEPT !.email = email])
         EXCEPT !.ctx = <<[user_id |-> uid, username |-> <<>>]>>] :
        id \in {<<"1">>, <<"2">>}, uid \in {1, 2}, email \in {EL, EB} }

InitConcurrent ==
    /\ now = StartTime
    /\ svc = NewAuthService(PrivateFile("kA", FALSE), PublicFile("kA"),
                            MainTokenExpiry).svc
    /\ users = {Ali1, Bob2}
    /\ nextID = 3
    /\ issued = {}
    /\ last = [op |-> "", arg |-> <<>>, at |-> now, out |-> <<>>]
    /\ reqs = [w \in Workers |-> IdleReq]
    /\ nreq = 0
    /\ limiter = [login |-> Full(LoginBurst), user |-> Full(UserBurst),
                  subscription |-> Full(SubscriptionBurst)]
    /\ subs = {}
    /\ nextSubID = 1
    /\ mu = <<>>
    /\ proc = Serving

\* sync.RWMutex.Lock can return for worker w
Lock(m, w) == m = <<>>

\* the deferred h.mu.Unlock() as it would be if only the successful return
\* released the mutex
Unlock_OnSuccessOnly(m, w, status) == IF status < 300 THEN <<>> ELSE m

\* the deferred h.mu.Unlock() of worker w, run at every return after the
\* lock was taken, whatever status was answered
Unlock(m, w, status) == <<>>

\* what UserHandler.Create looks up under the lock: <<>> or the rejection
CreateChecks(store, q) ==
    LET email == TrimSpace(ToLower(q.body.email))
        username == TrimSpace(ToLower(q.body.username))
    IN  IF GetByUsername(store, username).err = ""
        THEN <<JSON(409, "username already taken")>>
        ELSE IF GetByEmail(store, email).err = ""
        THEN <<JSON(409, "email already registered")>>
        ELSE <<>>

\* the rest of UserHandler.Create: h.repo.CreateWithContext and the answer
CreateStore(store, q, salt, id, rejectsLong) ==
    LET user == NewUser(TrimSpace(q.body.name),
                        TrimSpace(ToLower(q.body.username)),
                        TrimSpace(ToLower(q.body.email)), q.body.password)
        made == CreateWithContext(store, <<user>>, salt, id, rejectsLong)
    IN  IF made.err # ""
        THEN [resp |-> JSON(500, "failed to create user"), store |-> store,
              writes |-> {}]
        ELSE [resp |-> OK(201, [made.user[1] EXCEPT !.Password = NoPassword]),
              store |-> made.store, writes |-> {id}]

\* what UserHandler.UpdateByID looks up under the lock: the rejection, or
\* the row it read with the request's changes applied
UpdateChecks(store, q) ==
    LET found == GetByIDWithContext(store, ParseUint(q.id).n)
        newEmail == TrimSpace(ToLower(q.body.email))
        named == IF q.body.name # <<>>
                 THEN [found.user[1] EXCEPT !.Name = TrimSpace(q.body.name)]
                 ELSE found.user[1]
    IN  IF found.err # ""
        THEN [resp |-> <<JSON(404, "user not found")>>, user |-> <<>>]
        ELSE IF q.body.email # <<>> /\ newEmail # named.Email
        THEN IF GetByEmail(store, newEmail).err = ""
             THEN [resp |-> <<JSON(409, "email already in use")>>,
                   user |-> <<>>]
             ELSE [resp |-> <<>>, user |-> <<[named EXCEPT !.Email = newEmail]>>]
        ELSE [resp |-> <<>>, user |-> <<named>>]

\* the rest of UserHandler.UpdateByID: h.repo.UpdateWithContext and the
\* answer
UpdateStore(store, user) ==
    LET saved == UpdateWithContext(store, <<user>>)
    IN  IF saved.err # ""
        THEN [resp |-> JSON(500, "failed to update user"), store |-> store,
              writes |-> {}]
        ELSE [resp |-> OK(200, [user EXCEPT !.Password = NoPassword]),
              store |-> saved.store, writes |-> {user.ID}]

\* a request arrives at worker w and runs up to h.mu.Lock(): the limiter,
\* the binding, the validation and, for UpdateByID, the comparison of the
\* authenticated id answer before the lock is asked for
CcArrive(w) ==
    /\ reqs[w].pc = "idle"
    /\ nreq < MaxReq
    /\ \E q \in CcRequests :
          LET early == IF q.route = "Create"
                       THEN HandleCreate(users, q, limiter.user, "s1", nextID,
                                         FALSE)
                       ELSE HandleUpdateByID(users, q, limiter.user)
          IN  reqs' = [reqs EXCEPT ![w] =
                         IF early.resp.status \in {429, 400, 403}
                         THEN [q EXCEPT !.pc = "done", !.resp = early.resp]
                         ELSE [q EXCEPT !.pc = "lock"]]
    /\ limiter' = [limiter EXCEPT !.user = Take(limiter.user)]
    /\ nreq' = nreq + 1
    /\ UNCHANGED <<subs, nextSubID, mu, proc, now, svc, users, nextID, issued,
                   last>>

\* h.mu.Lock() returns
CcLock(w) ==
    /\ reqs[w].pc = "lock"
    /\ Lock(mu, w)
    /\ mu' = <<w>>
    /\ reqs' = [reqs EXCEPT ![w].pc = "check"]
    /\ UNCHANGED <<subs, nextSubID, proc, now, svc, users, nextID, issued,
                   last, nreq, limiter>>

\* the handler's look-ups: GetByUsername and GetByEmail, or
\* GetByIDWithContext and GetByEmail
CcCheck(w) ==
    /\ reqs[w].pc = "check"
    /\ LET q == reqs[w]
           rejected == IF q.route = "Create" THEN CreateChecks(users, q)
                       ELSE UpdateChecks(users, q).resp
       IN  reqs' = [reqs EXCEPT ![w] =
                      IF rejected # <<>>
                      THEN [q EXCEPT !.pc = "unlock", !.resp = rejected[1]]
                      ELSE IF q.route = "Create"
                      THEN [q EXCEPT !.pc = "store"]
                      ELSE [q EXCEPT !.pc = "store",
                                     !.ret = UpdateChecks(users, q).user]]
    /\ UNCHANGED <<subs, nextSubID, mu, proc, now, svc, users, nextID, issued,
                   last, nreq, limiter>>

\* the repository's transaction: CreateWithContext or UpdateWithContext
CcStore(w) ==
    /\ reqs[w].pc = "store"
    /\ \E rejectsLong \in BOOLEAN :
          LET q == reqs[w]
              out == IF q.route = "Create"
                     THEN CreateStore(users, q, "s1", nextID, rejectsLong)
                     ELSE UpdateStore(users, q.ret[1])
          IN  /\ users' = out.store
              /\ nextID' = IF q.route = "Create" /\ out.writes # {}
                           THEN nextID + 1 ELSE nextID
              /\ reqs' = [reqs EXCEPT ![w] =
                            [q EXCEPT !.pc = "unlock", !.resp = out.resp,
                                      !.writes = out.writes]]
    /\ UNCHANGED <<subs, nextSubID, mu, proc, now, svc, issued, last, nreq,
                   limiter>>

\* the handler returns: the deferred h.mu.Unlock() runs
CcUnlock(w) ==
    /\ reqs[w].pc = "unlock"
    /\ mu' = Unlock(mu, w, reqs[w].resp.status)
    /\ reqs' = [reqs EXCEPT ![w].pc = "done"]
    /\ UNCHANGED <<subs, nextSubID, proc, now, svc, users, nextID, issued,
                   last, nreq, limiter>>

\* the response is written and the worker is free again
CcFinish(w) ==
    /\ reqs[w].pc = "done"
    /\ reqs' = [reqs EXCEPT ![w] = IdleReq]
    /\ UNCHANGED <<subs, nextSubID, mu, proc, now, svc, users, nextID, issued,
                   last, nreq, limiter>>

NextConcurrent ==
    \/ \E w \in Workers : CcArrive(w)
    \/ \E w \in Workers : CcLock(w)
    \/ \E w \in Workers : CcCheck(w)
    \/ \E w \in Workers : CcStore(w)
    \/ \E w \in Workers : CcUnlock(w)
    \/ \E w \in Workers : CcFinish(w)

SpecConcurrent == InitConcurrent /\ [][NextConcurrent]_vars

\* no two stored users share a username or an e-mail address
UniqueUsers ==
    \A u, v \in users :
        u # v => /\ u.ID # v.ID
                 /\ u.UsernameForLogin # v.UsernameForLogin
                 /\ u.Email # v.Email

\* the mutex is held by the one worker inside a handler's critical
\* section, and by nobody when there is none
MutexFollowsHandlers ==
    \A w \in Workers :
        reqs[w].pc \in {"check", "store", "unlock"} <=> mu = <<w>>

\* the users table changes only in the step of a request that is then
\* answered 200 or 201
OnlyWinnersStore ==
    users' # users
    => \E w \in Workers : /\ reqs[w].pc = "store"
                          /\ reqs'[w].pc = "unlock"
                          /\ reqs'[w].resp.status \in {200, 201}

\* C27: under every interleaving of concurrent Create and UpdateByID
\* requests no two stored users share a username or an e-mail address, a
\* request that is rejected stores nothing, and the handler's mutex is
\* held only while a handler is inside its critical section.
C27_UniqueUnderConcurrency ==
    /\ [](UniqueUsers /\ MutexFollowsHandlers)
    /\ [][OnlyWinnersStore]_vars

\* two registrations of the same username were in flight together: one
\* has stored its user and the other returns 409 with the mutex in hand
C27_Witness ==
    \E w1, w2 \in Workers :
        /\ reqs[w1].pc = "done"
        /\ reqs[w1].resp.status = 201
        /\ reqs[w1].body.username = ULab
        /\ reqs[w2].pc = "unlock"
        /\ reqs[w2].body.username = ULAb
        /\ reqs[w2].resp = JSON(409, "username already taken")
        /\ \E u \in users :
              /\ u.UsernameForLogin = ULab
              /\ u.ID = 3

====
